---- MODULE Spec2Model ----
(***************************************************************************)
(* Outbound rate limiting of mkoziy/genome (exporter/internal/ratelimit):  *)
(* TokenBucket, FixedWindow, FixedDelayLimiter, the clients that wait on a *)
(* limiter (RateLimitedClient, clinvar.Client), CalculateBackoff, and the  *)
(* constructors with applyDefaults, the NewLimiter factory, the            *)
(* SourceConfigs loader and the clinvar Fetcher.                           *)
(*                                                                         *)
(* Time is a discrete clock; one tick is the resolution of time.Duration.  *)
(* A second is TicksPerSecond ticks.  Token amounts (float64 in the code)  *)
(* are kept in units of 1/OneToken of a token, and the rate in such units  *)
(* per tick, so that elapsed * rate is exact.                              *)
(*                                                                         *)
(* Every critical section is two steps: the first acquires the mutex,      *)
(* reads the clock and loads the field the decision depends on, the second *)
(* stores the result, releases the mutex and returns.                      *)
(***************************************************************************)
EXTENDS Integers, Sequences, FiniteSets, TLC

VARIABLES
    limiter,    \* dynamic type behind the Limiter interface
    now,        \* the clock (time.Now())
    mu,         \* set of callers inside the limiter's mutex
    tb,         \* TokenBucket fields
    fw,         \* FixedWindow fields
    fdl,        \* FixedDelayLimiter fields
    config,     \* the limiter's Config (its backoff fields)
    made,       \* what a constructor was given and what it built
    client,     \* the client that wraps the limiter
    fetcher,    \* the running (or last) Fetcher.FetchSignificantSNPs
    do,         \* per caller: the running (or last) RateLimitedClient.Do
    procs,      \* per caller: position in the running call and its locals
    h           \* history of the run (observed results), not program state

vars == <<limiter, now, mu, tb, fw, fdl, config, made, client, fetcher, do, procs,
          h>>

\* what the methods of one limiter leave alone
notTB == <<limiter, fw, fdl, config, made, client, fetcher, do>>
notFW == <<limiter, tb, fdl, config, made, client, fetcher, do>>
notFD == <<limiter, tb, fw, config, made, client, fetcher, do>>
notDo == <<limiter, tb, fw, fdl, config, made, client, fetcher>>

----------------------------------------------------------------------------
\* Bounds of the model
NProcs == 3
MaxTime == 5
MaxCalls == 3
TicksPerSecond == 4
\* the values rand.Float64() is drawn from: k / JitterSteps, k < JitterSteps
JitterSteps == 4
\* stored units per token
OneToken == 4
\* the largest attempt CalculateBackoff is called with
MaxAttempt == 4

Procs == 1..NProcs
Times == 0..MaxTime

\* configurations after applyDefaults: rate in units per tick, burst in tokens
Rates == {2, 4}
Bursts == {1, 2}

IdleProc ==
    [pc |-> "idle", op |-> "none", ctx |-> FALSE, rd |-> 0, t |-> 0, w |-> 0]

StartProc(pcv, opv, c) ==
    [pc |-> pcv, op |-> opv, ctx |-> c, rd |-> 0, t |-> 0, w |-> 0]

\* the locals of a call that has returned are gone
Return(q) == IdleProc

\* the most recent return: who, which call, the result, the returned wait and
\* whether that call decremented tokens
Returned(hh, p, r, wv, tk) ==
    [hh EXCEPT !.last = [p |-> p, op |-> procs[p].op, res |-> r, w |-> wv, took |-> tk]]

\* no Do has been called
NoDo == [waits |-> 0, calls |-> 0, sleeps |-> 0, slept |-> 0, first |-> "none",
         second |-> "none", out |-> "none"]

InitHist ==
    [calls |-> 0, nTrue |-> 0, nFalse |-> 0,
     onlyAllow |-> TRUE, wasReset |-> FALSE, adm |-> [x \in Times |-> 0],
     winAdm |-> 0, log |-> <<>>,
     lastDo |-> NoDo,
     lastBackoff |-> [attempt |-> 0, k |-> 0, d |-> 0],
     last |-> [p |-> 0, op |-> "none", res |-> "none", w |-> 0, took |-> FALSE]]

Called(p, opv) ==
    [h EXCEPT !.calls = @ + 1,
              !.onlyAllow = @ /\ opv = "Allow",
              !.wasReset = @ \/ opv = "Reset"]

Admit(hh, t) == [hh EXCEPT !.adm[t] = @ + 1]

\* Goroutines are interchangeable: a new call is taken by the lowest-numbered
\* caller that is not inside one, and there are at most MaxCalls calls
CanCall(p) ==
    /\ procs[p].pc = "idle"
    /\ h.calls < MaxCalls
    /\ \A q \in Procs : q < p => procs[q].pc # "idle"

----------------------------------------------------------------------------
\* The clock

\* Every critical section reads the clock once, in its first step, so a tick
\* inside a critical section is the same run as a tick right after it; but
\* FixedWindow.Reserve reads the clock a second time (time.Since).
Tick ==
    /\ now < MaxTime
    /\ \A p \in mu : procs[p].pc = "fw_reserve"
    /\ now' = now + 1
    /\ UNCHANGED <<limiter, mu, tb, fw, fdl, config, made, client, fetcher, do,
                   procs, h>>

\* the caller's context is canceled (or its deadline passes) while the call
\* is blocked in a select on ctx.Done()
CtxCancel(p) ==
    /\ procs[p].pc \in {"tb_select", "fw_sleep", "fd_select", "do_wait", "do_sleep", "cv_wait"}
    /\ ~procs[p].ctx
    /\ procs' = [procs EXCEPT ![p].ctx = TRUE]
    /\ UNCHANGED <<limiter, now, mu, tb, fw, fdl, config, made, client, fetcher, do, h>>

\* the limiters that were not built
NoTokenBucket == [rate |-> 0, burst |-> 0, tokens |-> 0, lastUpdate |-> 0]
NoFixedWindow ==
    [limit |-> 0, window |-> 0, count |-> 0, windowStart |-> 0,
     config |-> [rps2 |-> 0]]
NoFixedDelayLimiter == [delay |-> 0, lastRequest |-> 0]

\* no constructor has been called
NothingMade == [ctor |-> "none"]

\* FetchSignificantSNPs has not been called
NoFetch == [pc |-> "idle"]

\* DefaultConfig(): durations in ticks, the float64 fields in halves
\* (RequestsPerSec in halves of a request per second, BackoffMultiplier 2.0
\* as 4)
DefaultConfig ==
    [Strategy |-> "token_bucket", RequestsPerSec |-> 6, Burst |-> 5,
     FixedDelay |-> TicksPerSecond,
     MaxRetries |-> 5, InitialBackoff |-> TicksPerSecond,
     MaxBackoff |-> 60 * TicksPerSecond, BackoffMultiplier |-> 4]

\* the float64 that is not a number; float64 fields are whole numbers of
\* halves here, and this one is a value no arithmetic of the model yields. It is below
\* every number of the model, so that x >= y and x > y are false for a NaN
\* x, as they are on a float64.
NaN == 0 - 1000

\* the conversion of a NaN to an integer type (int, time.Duration) is
\* implementation-specific: the lowest integer on some platforms, 0 on
\* others, the lowest being written as the first value here
IntOfNaN == {0 - 2147483647, 0}

----------------------------------------------------------------------------
\* TokenBucket

NewTokenBucketOneMore(r, b) ==
    [rate |-> r, burst |-> b, tokens |-> (b + 1) * OneToken, lastUpdate |-> now]

NewTokenBucket(r, b) ==
    [rate |-> r, burst |-> b, tokens |-> b * OneToken, lastUpdate |-> now]

TBMuFreeRacy == TRUE

TBMuFree == mu = {}

refillUnclipped(b, t) ==
    LET elapsed == t - b.lastUpdate
    IN  IF elapsed <= 0 THEN b
        ELSE [b EXCEPT !.tokens = b.tokens + elapsed * b.rate, !.lastUpdate = t]

\* refill, lines 108-120, when time.Now() reads t
refill(b, t) ==
    LET elapsed == t - b.lastUpdate
        sum == IF b.tokens = NaN \/ b.rate = NaN THEN NaN
               ELSE b.tokens + elapsed * b.rate
        cap == b.burst * OneToken
    IN  IF elapsed <= 0 THEN b
        ELSE [b EXCEPT !.tokens = IF sum # NaN /\ sum > cap THEN cap ELSE sum,
                       !.lastUpdate = t]

\* Allow, lines 65-70: Lock, refill, load tokens
TBAllowLock(p) ==
    /\ limiter = "TokenBucket"
    /\ CanCall(p)
    /\ TBMuFree
    /\ mu' = mu \cup {p}
    /\ tb' = refill(tb, now)
    /\ procs' = [procs EXCEPT ![p] =
           [StartProc("tb_allow", "Allow", FALSE) EXCEPT !.rd = tb'.tokens, !.t = now]]
    /\ h' = Called(p, "Allow")
    /\ UNCHANGED <<notTB, now>>

\* Allow, lines 70-74: tokens-- and true, or false; deferred Unlock
TBAllowDone(p) ==
    /\ procs[p].pc = "tb_allow"
    /\ mu' = mu \ {p}
    /\ IF procs[p].rd >= OneToken
       THEN /\ tb' = [tb EXCEPT !.tokens = procs[p].rd - OneToken]
            /\ h' = Returned(Admit([h EXCEPT !.nTrue = @ + 1], procs[p].t),
                           p, "true", 0, TRUE)
       ELSE /\ tb' = tb
            /\ h' = Returned([h EXCEPT !.nFalse = @ + 1], p, "false", 0, FALSE)
    /\ procs' = [procs EXCEPT ![p] = Return(@)]
    /\ UNCHANGED <<notTB, now>>

\* Wait, lines 34-35: Lock, refill, load tokens
TBWaitLock(p, c) ==
    /\ limiter = "TokenBucket"
    /\ CanCall(p)
    /\ TBMuFree
    /\ mu' = mu \cup {p}
    /\ tb' = refill(tb, now)
    /\ procs' = [procs EXCEPT ![p] =
           [StartProc("tb_wait1", "Wait", c) EXCEPT !.rd = tb'.tokens, !.t = now]]
    /\ h' = Called(p, "Wait")
    /\ UNCHANGED <<notTB, now>>

TBWaitForTruncated(tokens, rate) ==
    IF tokens = NaN \/ rate = NaN THEN IntOfNaN
    ELSE {(OneToken - tokens) \div rate}

\* the wait of line 44: the deficit over the rate, truncated to the clock
\* resolution, plus one unit of it (time.Nanosecond)
TBWaitFor(tokens, rate) ==
    IF tokens = NaN \/ rate = NaN THEN {d + 1 : d \in IntOfNaN}
    ELSE {((OneToken - tokens) \div rate) + 1}

\* time.NewTimer(d): a timer of no or negative duration fires at once
TimerAfter(d) == IF d <= 0 THEN 0 ELSE d

\* what Reserve returns, lines 84-90
TBReserveFor(tokens, rate) ==
    IF tokens >= OneToken THEN {0}
    ELSE IF tokens = NaN \/ rate = NaN THEN IntOfNaN
    ELSE {(OneToken - tokens) \div rate}

TBWaitFirstSleepsLocked(p) ==
    /\ procs[p].pc = "tb_wait1"
    /\ IF procs[p].rd >= OneToken
       THEN /\ mu' = mu \ {p}
            /\ tb' = [tb EXCEPT !.tokens = procs[p].rd - OneToken]
            /\ procs' = [procs EXCEPT ![p] = Return(@)]
            /\ h' = Returned(Admit(h, procs[p].t), p, "nil", 0, TRUE)
       ELSE /\ mu' = mu
            /\ tb' = tb
            /\ \E wait \in TBWaitFor(procs[p].rd, tb.rate) :
                   procs' = [procs EXCEPT ![p].pc = "tb_select", ![p].rd = 0,
                                          ![p].t = 0, ![p].w = now + TimerAfter(wait)]
            /\ h' = h
    /\ UNCHANGED <<notTB, now>>

\* Wait, lines 37-47: consume and return nil, or compute the wait, Unlock
\* and start the timer
TBWaitFirst(p) ==
    /\ procs[p].pc = "tb_wait1"
    /\ mu' = mu \ {p}
    /\ IF procs[p].rd >= OneToken
       THEN /\ tb' = [tb EXCEPT !.tokens = procs[p].rd - OneToken]
            /\ procs' = [procs EXCEPT ![p] = Return(@)]
            /\ h' = Returned(Admit(h, procs[p].t), p, "nil", 0, TRUE)
       ELSE /\ tb' = tb
            /\ \E wait \in TBWaitFor(procs[p].rd, tb.rate) :
                   procs' = [procs EXCEPT ![p].pc = "tb_select", ![p].rd = 0,
                                          ![p].t = 0, ![p].w = now + TimerAfter(wait)]
            /\ h' = h
    /\ UNCHANGED <<notTB, now>>

\* Wait, lines 49-51: ctx.Done() is ready
TBWaitCancel(p) ==
    /\ procs[p].pc = "tb_select"
    /\ procs[p].ctx
    /\ procs' = [procs EXCEPT ![p] = Return(@)]
    /\ h' = Returned(h, p, "ctxErr", 0, FALSE)
    /\ UNCHANGED <<notTB, now, mu, tb>>

\* <-timer.C is ready: the timer's duration has passed
TimerFiredEarly(p) == TRUE

TimerFired(p) == now >= procs[p].w

\* Wait, lines 52-54: the timer fired; Lock, refill, load tokens
TBWaitTimer(p) ==
    /\ procs[p].pc = "tb_select"
    /\ TimerFired(p)
    /\ TBMuFree
    /\ mu' = mu \cup {p}
    /\ tb' = refill(tb, now)
    /\ procs' = [procs EXCEPT ![p].pc = "tb_wait2", ![p].rd = tb'.tokens,
                              ![p].t = now, ![p].w = 0]
    /\ UNCHANGED <<notTB, now, h>>

\* Wait, lines 55-59: consume if a token is there, Unlock, return nil
TBWaitSecond(p) ==
    /\ procs[p].pc = "tb_wait2"
    /\ mu' = mu \ {p}
    /\ IF procs[p].rd >= OneToken
       THEN /\ tb' = [tb EXCEPT !.tokens = procs[p].rd - OneToken]
            /\ h' = Returned(Admit(h, procs[p].t), p, "nil", 0, TRUE)
       ELSE /\ tb' = tb
            /\ h' = Returned(Admit(h, procs[p].t), p, "nil", 0, FALSE)
    /\ procs' = [procs EXCEPT ![p] = Return(@)]
    /\ UNCHANGED <<notTB, now>>

\* Reserve, lines 79-84: Lock, refill, load tokens
TBReserveLock(p) ==
    /\ limiter = "TokenBucket"
    /\ CanCall(p)
    /\ TBMuFree
    /\ mu' = mu \cup {p}
    /\ tb' = refill(tb, now)
    /\ procs' = [procs EXCEPT ![p] =
           [StartProc("tb_reserve", "Reserve", FALSE) EXCEPT !.rd = tb'.tokens, !.t = now]]
    /\ h' = Called(p, "Reserve")
    /\ UNCHANGED <<notTB, now>>

TBReserveDoneDrains(p) ==
    /\ procs[p].pc = "tb_reserve"
    /\ mu' = mu \ {p}
    /\ procs' = [procs EXCEPT ![p] = Return(@)]
    /\ tb' = IF procs[p].rd >= OneToken THEN tb ELSE [tb EXCEPT !.tokens = 0]
    /\ \E wait \in TBReserveFor(procs[p].rd, tb.rate) :
           h' = Returned(h, p, "dur", wait, FALSE)
    /\ UNCHANGED <<notTB, now>>

\* Reserve, lines 84-90: zero, or the time until one token accrues
TBReserveDone(p) ==
    /\ procs[p].pc = "tb_reserve"
    /\ mu' = mu \ {p}
    /\ procs' = [procs EXCEPT ![p] = Return(@)]
    /\ \E wait \in TBReserveFor(procs[p].rd, tb.rate) :
           h' = Returned(h, p, "dur", wait, FALSE)
    /\ UNCHANGED <<notTB, now, tb>>

\* Reset, line 100: Lock
TBResetLock(p) ==
    /\ limiter = "TokenBucket"
    /\ CanCall(p)
    /\ TBMuFree
    /\ mu' = mu \cup {p}
    /\ procs' = [procs EXCEPT ![p] = StartProc("tb_reset", "Reset", FALSE)]
    /\ h' = Called(p, "Reset")
    /\ UNCHANGED <<notTB, now, tb>>

TBResetDoneKeepsClock(p) ==
    /\ procs[p].pc = "tb_reset"
    /\ mu' = mu \ {p}
    /\ tb' = [tb EXCEPT !.tokens = tb.burst * OneToken]
    /\ procs' = [procs EXCEPT ![p] = Return(@)]
    /\ h' = Returned(h, p, "done", 0, FALSE)
    /\ UNCHANGED <<notTB, now>>

\* Reset, lines 103-104 and the deferred Unlock
TBResetDone(p) ==
    /\ procs[p].pc = "tb_reset"
    /\ mu' = mu \ {p}
    /\ tb' = [tb EXCEPT !.tokens = tb.burst * OneToken, !.lastUpdate = now]
    /\ procs' = [procs EXCEPT ![p] = Return(@)]
    /\ h' = Returned(h, p, "done", 0, FALSE)
    /\ UNCHANGED <<notTB, now>>

InitTB ==
    /\ limiter = "TokenBucket"
    /\ now = 0
    /\ mu = {}
    /\ \E r \in Rates, b \in Bursts : tb = NewTokenBucket(r, b)
    /\ fw = NoFixedWindow
    /\ fdl = NoFixedDelayLimiter
    /\ config = DefaultConfig
    /\ made = NothingMade
    /\ client = "none"
    /\ fetcher = NoFetch
    /\ do = [p \in Procs |-> NoDo]
    /\ procs = [p \in Procs |-> IdleProc]
    /\ h = InitHist

NextTB ==
    \/ Tick
    \/ \E p \in Procs :
        \/ CtxCancel(p)
        \/ TBAllowLock(p) \/ TBAllowDone(p)
        \/ \E c \in BOOLEAN : TBWaitLock(p, c)
        \/ TBWaitFirst(p) \/ TBWaitCancel(p) \/ TBWaitTimer(p) \/ TBWaitSecond(p)
        \/ TBReserveLock(p) \/ TBReserveDone(p)
        \/ TBResetLock(p) \/ TBResetDone(p)

SpecTB == InitTB /\ [][NextTB]_vars

----------------------------------------------------------------------------
\* Properties of TokenBucket (checked under SpecTB)

RECURSIVE AdmittedIn(_, _)
\* admissions decided at the clock readings a..b
AdmittedIn(a, b) == IF a > b THEN 0 ELSE h.adm[b] + AdmittedIn(a, b - 1)

\* no call but Allow has been made and the clock still reads the time of
\* construction: nothing can have been refilled
OnlyAllowNoElapse == limiter = "TokenBucket" /\ h.onlyAllow /\ now = 0

\* C1: when more callers than the burst B invoke Allow() concurrently and no
\* time elapses, exactly B calls return true and the others false, in every
\* interleaving, and every success took a token of its own: the tokens left
\* are the burst minus the successes.
C1_ConcurrentBurst ==
    OnlyAllowNoElapse =>
        /\ h.nTrue <= tb.burst
        /\ (h.nTrue + h.nFalse > tb.burst =>
               h.nTrue = tb.burst /\ h.nFalse = h.nTrue + h.nFalse - tb.burst)
        /\ (mu = {} => tb.tokens = (tb.burst - h.nTrue) * OneToken)

\* N = NProcs Allow() calls have returned on a bucket of burst B < N
C1_Witness ==
    /\ OnlyAllowNoElapse
    /\ NProcs > tb.burst
    /\ h.nTrue + h.nFalse = NProcs
    /\ h.nTrue = tb.burst
    /\ mu = {}

\* C2: every nil return of TokenBucket.Wait has itself decremented tokens
\* by one.
C2_WaitNilConsumedToken ==
    (limiter = "TokenBucket" /\ h.last.op = "Wait" /\ h.last.res = "nil")
        => h.last.took

\* C3: on a bucket that was never Reset, the admissions (Allow true, Wait
\* nil) in any span of time are at most burst + rate * span.
C3_RateEnvelope ==
    (limiter = "TokenBucket" /\ ~h.wasReset) =>
        \A a \in Times, b \in Times :
            a <= b =>
                AdmittedIn(a, b) * OneToken <= tb.burst * OneToken + tb.rate * (b - a)

\* C4: on a fresh bucket, with no elapsed time, the k-th Allow() returns true
\* for every k <= burst and the (burst+1)-th returns false.
C4_BurstExact ==
    (OnlyAllowNoElapse /\ h.last.op = "Allow") =>
        LET k == h.nTrue + h.nFalse IN
        /\ (k <= tb.burst => h.last.res = "true")
        /\ (k = tb.burst + 1 => h.last.res = "false")

\* the (burst+1)-th Allow() of a fresh bucket has just returned
C4_Witness ==
    /\ OnlyAllowNoElapse
    /\ h.last.op = "Allow"
    /\ h.nTrue + h.nFalse = tb.burst + 1
    /\ h.last.res = "false"

\* C8: a TokenBucket.Wait that found no token and whose context is canceled
\* before its computed wait has elapsed returns the context's error, and
\* returning it leaves the bucket as it was: the call consumes no token.
C8_WaitCancelNoToken ==
    [][\A p \in Procs :
        (/\ procs[p].pc = "tb_select"
         /\ procs[p].ctx
         /\ now < procs[p].w
         /\ procs'[p].pc # "tb_select")
        => (/\ procs'[p].pc = "idle"
            /\ h'.last = [p |-> p, op |-> "Wait", res |-> "ctxErr", w |-> 0,
                          took |-> FALSE]
            /\ tb' = tb)]_vars

\* a Wait that slept on an empty bucket has returned the context's error
C8_Witness ==
    /\ limiter = "TokenBucket"
    /\ h.last.op = "Wait" /\ h.last.res = "ctxErr"
    /\ tb.tokens < OneToken

\* TokenBucket.Reserve of caller p returns in this step
TBReserveLeaves(p) ==
    limiter = "TokenBucket" /\ procs[p].pc = "tb_reserve" /\ procs'[p].pc = "idle"

\* C25: a TokenBucket.Reserve() that finds at least one token after the
\* refill consumes it (tokens goes down by one) and returns a zero wait.
C25_ReserveConsumes ==
    [][\A p \in Procs :
        (TBReserveLeaves(p) /\ tb.tokens >= OneToken)
        => (h'.last.w = 0 /\ tb'.tokens = tb.tokens - OneToken)]_vars

\* C26: a TokenBucket.Reserve() that finds less than one token after the
\* refill returns the wait (1 - tokens) / rate, in whole units of the clock,
\* and consumes nothing: the bucket is left as the refill made it, and a
\* Reserve() repeated at the same instant refills nothing and returns the
\* same wait.
C26_ReserveEstimates ==
    [][\A p \in Procs :
        (TBReserveLeaves(p) /\ tb.tokens < OneToken)
        => LET w == h'.last.w
               deficit == OneToken - tb.tokens
               again == refill(tb', now)
           IN  /\ h'.last.p = p /\ h'.last.res = "dur"
               /\ w * tb.rate <= deficit /\ deficit < (w + 1) * tb.rate
               /\ tb' = tb
               /\ again = tb'
               /\ (OneToken - again.tokens) \div again.rate = w]_vars

\* a Reserve() on a bucket holding a fraction of a token has returned a
\* positive wait
C26_Witness ==
    /\ limiter = "TokenBucket"
    /\ h.last.op = "Reserve" /\ h.last.w > 0
    /\ tb.tokens > 0 /\ tb.tokens < OneToken
    /\ mu = {}

Min(a, b) == IF a < b THEN a ELSE b

\* caller p runs refill under the lock in this step
TBRefills(p) ==
    /\ limiter = "TokenBucket"
    /\ procs'[p].pc \in {"tb_allow", "tb_wait1", "tb_wait2", "tb_reserve"}
    /\ procs'[p].pc # procs[p].pc

\* TokenBucket.Allow of caller p returns in this step
TBAllowLeaves(p) ==
    limiter = "TokenBucket" /\ procs[p].pc = "tb_allow" /\ procs'[p].pc = "idle"

\* the last call to return was an Allow() that found the bucket exhausted,
\* and no call has been made since
Exhausted ==
    /\ limiter = "TokenBucket"
    /\ h.last.op = "Allow" /\ h.last.res = "false"
    /\ \A q \in Procs : procs[q].pc = "idle"

\* refill adds elapsed * rate, clips to the burst and sets lastUpdate to now;
\* an Allow() succeeds, taking one token, exactly when one is there
TBRefillAndAllow(p) ==
    /\ TBRefills(p) =>
           LET elapsed == now - tb.lastUpdate IN
           IF elapsed > 0
           THEN /\ tb'.tokens = Min(tb.tokens + elapsed * tb.rate, tb.burst * OneToken)
                /\ tb'.lastUpdate = now
                /\ tb'.rate = tb.rate /\ tb'.burst = tb.burst
           ELSE tb' = tb
    /\ TBAllowLeaves(p) =>
           IF tb.tokens >= OneToken
           THEN h'.last.res = "true" /\ tb'.tokens = tb.tokens - OneToken
           ELSE h'.last.res = "false" /\ tb' = tb

\* C27 as claimed: refill adds elapsed * rate tokens, clips to the burst and
\* advances lastUpdate to now; and when t has passed since an Allow() found
\* the bucket exhausted, with no call in between, the Allow() calls made
\* then find floor(min(t * rate, burst)) tokens to take.
C27_RefillFromExhausted ==
    [][\A p \in Procs :
        /\ TBRefillAndAllow(p)
        /\ (Exhausted /\ TBRefills(p) /\ procs'[p].op = "Allow") =>
               LET t == now - tb.lastUpdate IN
               tb'.tokens \div OneToken
                   = Min(t * tb.rate, tb.burst * OneToken) \div OneToken]_vars

\* C27 as amended: refill adds elapsed * rate tokens, clips to the burst and
\* advances lastUpdate to now; and when t has passed since an Allow() found
\* the bucket exhausted with the fraction f < 1 of a token left, with no
\* call in between, the Allow() calls made then find
\* floor(min(f + t * rate, burst)) tokens to take, each success taking one.
C27_RefillFromFraction ==
    [][\A p \in Procs :
        /\ TBRefillAndAllow(p)
        /\ (Exhausted /\ TBRefills(p) /\ procs'[p].op = "Allow") =>
               LET t == now - tb.lastUpdate IN
               /\ tb.tokens < OneToken
               /\ tb'.tokens \div OneToken
                      = Min(tb.tokens + t * tb.rate, tb.burst * OneToken) \div OneToken]_vars

\* a fresh bucket gave its burst, refused the next Allow(), and after a
\* refill an Allow() has succeeded again
C27_Witness ==
    /\ limiter = "TokenBucket"
    /\ h.onlyAllow
    /\ h.nTrue = tb.burst + 1 /\ h.nFalse = 1
    /\ h.last.op = "Allow" /\ h.last.res = "true"
    /\ tb.lastUpdate > 0

----------------------------------------------------------------------------
\* A TokenBucket used by one caller: no call starts before the last returned

\* rates, in units per tick, that do and do not divide the deficits
SingleRates == {2, 3, 4}

InitTBSingle ==
    /\ limiter = "TokenBucket"
    /\ now = 0
    /\ mu = {}
    /\ \E r \in SingleRates, b \in Bursts : tb = NewTokenBucket(r, b)
    /\ fw = NoFixedWindow
    /\ fdl = NoFixedDelayLimiter
    /\ config = DefaultConfig
    /\ made = NothingMade
    /\ client = "none"
    /\ fetcher = NoFetch
    /\ do = [p \in Procs |-> NoDo]
    /\ procs = [p \in Procs |-> IdleProc]
    /\ h = InitHist

\* the steps of NextTB taken by the first caller, the only one there is
NextTBSingle ==
    \/ Tick
    \/ CtxCancel(1)
    \/ TBAllowLock(1) \/ TBAllowDone(1)
    \/ \E c \in BOOLEAN : TBWaitLock(1, c)
    \/ TBWaitFirst(1) \/ TBWaitCancel(1) \/ TBWaitTimer(1) \/ TBWaitSecond(1)
    \/ TBReserveLock(1) \/ TBReserveDone(1)
    \/ TBResetLock(1) \/ TBResetDone(1)

SpecTBSingle == InitTBSingle /\ [][NextTBSingle]_vars

\* C37: with a single caller and a clock that does not go back, a
\* TokenBucket.Wait that returns nil has taken exactly one token: at once,
\* or, after sleeping the computed wait, from a refilled bucket that holds
\* at least one.
C37_SingleWaitTakesToken ==
    [][\A p \in Procs :
        (/\ limiter = "TokenBucket"
         /\ procs[p].op = "Wait"
         /\ procs[p].pc # "idle" /\ procs'[p].pc = "idle"
         /\ h'.last.res = "nil")
        => (/\ procs[p].pc \in {"tb_wait1", "tb_wait2"}
            /\ tb.tokens >= OneToken
            /\ tb'.tokens = tb.tokens - OneToken
            /\ h'.last.took)]_vars

\* the timer of a Wait that found the bucket empty has fired at a later
\* time, and the bucket it refilled holds a token
C37_Witness ==
    /\ limiter = "TokenBucket"
    /\ procs[1].op = "Wait" /\ procs[1].pc = "tb_wait2"
    /\ procs[1].rd >= OneToken
    /\ tb.lastUpdate = now /\ now > 0
    /\ tb.rate = 3
    /\ \A q \in Procs : q > 1 => procs[q].pc = "idle"

----------------------------------------------------------------------------
\* FixedWindow

\* cfg.RequestsPerSec after applyDefaults, in halves of a request per second
FWRates == {1, 2, 4}

NewFixedWindowCeil(rps2) ==
    [limit |-> (rps2 + 1) \div 2, window |-> TicksPerSecond, count |-> 0,
     windowStart |-> now, config |-> [rps2 |-> rps2]]

\* limit: int(cfg.RequestsPerSec) truncates
NewFixedWindow(rps2) ==
    [limit |-> rps2 \div 2, window |-> TicksPerSecond, count |-> 0,
     windowStart |-> now, config |-> [rps2 |-> rps2]]

FWMuFreeRacy == TRUE

FWMuFree == mu = {}

\* a caller that panicked has brought the program down
FWRunning == limiter = "FixedWindow" /\ \A q \in Procs : procs[q].pc # "panic"

resetWindowIfNeededLate(f, t) ==
    IF t - f.windowStart > f.window
    THEN [f EXCEPT !.count = 0, !.windowStart = t]
    ELSE f

resetWindowIfNeeded(f, t) ==
    IF t - f.windowStart >= f.window
    THEN [f EXCEPT !.count = 0, !.windowStart = t]
    ELSE f

\* the time of an admission, kept for the runs that call nothing but Allow()
AdmitAllow(hh, t) == IF hh.onlyAllow THEN Admit(hh, t) ELSE hh

\* admissions since windowStart was last set
WindowHist(hh, f) ==
    IF f.windowStart # fw.windowStart
    THEN [hh EXCEPT !.winAdm = 0] ELSE hh

\* Wait, line 33: the call is made and enters its loop
FWWaitCall(p, c) ==
    /\ FWRunning
    /\ CanCall(p)
    /\ procs' = [procs EXCEPT ![p] = StartProc("fw_loop", "Wait", c)]
    /\ h' = Called(p, "Wait")
    /\ UNCHANGED <<notFW, now, mu, fw>>

\* Allow, lines 52-57, called by a caller or by Wait (line 35): Lock,
\* resetWindowIfNeeded, load count
FWAllowLock(p) ==
    /\ FWRunning
    /\ \/ CanCall(p)
       \/ procs[p].pc = "fw_loop"
    /\ FWMuFree
    /\ mu' = mu \cup {p}
    /\ fw' = resetWindowIfNeeded(fw, now)
    /\ procs' = [procs EXCEPT ![p] =
           IF procs[p].pc = "idle"
           THEN [StartProc("fw_allow", "Allow", FALSE) EXCEPT !.rd = fw'.count]
           ELSE [@ EXCEPT !.pc = "fw_allow", !.rd = fw'.count]]
    /\ h' = WindowHist(IF procs[p].pc = "idle" THEN Called(p, "Allow") ELSE h, fw')
    /\ UNCHANGED <<notFW, now>>

\* Allow, lines 57-62 and the deferred Unlock; in Wait, lines 35-37: nil
\* when Allow returned true
FWAllowDone(p) ==
    /\ procs[p].pc = "fw_allow"
    /\ mu' = mu \ {p}
    /\ IF procs[p].rd < fw.limit
       THEN /\ fw' = [fw EXCEPT !.count = procs[p].rd + 1]
            /\ procs' = [procs EXCEPT ![p] = Return(@)]
            /\ h' = Returned(AdmitAllow([h EXCEPT !.winAdm = @ + 1], now), p,
                             IF procs[p].op = "Wait" THEN "nil" ELSE "true", 0, TRUE)
       ELSE /\ fw' = fw
            /\ IF procs[p].op = "Wait"
               THEN /\ procs' = [procs EXCEPT ![p].pc = "fw_refused", ![p].rd = 0]
                    /\ h' = h
               ELSE /\ procs' = [procs EXCEPT ![p] = Return(@)]
                    /\ h' = Returned(h, p, "false", 0, FALSE)
    /\ UNCHANGED <<notFW, now>>

\* Reserve, lines 67-72, called by a caller or by Wait (line 39): Lock,
\* resetWindowIfNeeded, load count
FWReserveLock(p) ==
    /\ FWRunning
    /\ \/ CanCall(p)
       \/ procs[p].pc = "fw_refused"
    /\ FWMuFree
    /\ mu' = mu \cup {p}
    /\ fw' = resetWindowIfNeeded(fw, now)
    /\ procs' = [procs EXCEPT ![p] =
           IF procs[p].pc = "idle"
           THEN [StartProc("fw_reserve", "Reserve", FALSE) EXCEPT !.rd = fw'.count]
           ELSE [@ EXCEPT !.pc = "fw_reserve", !.rd = fw'.count]]
    /\ h' = WindowHist(IF procs[p].pc = "idle" THEN Called(p, "Reserve") ELSE h, fw')
    /\ UNCHANGED <<notFW, now>>

\* Reserve, lines 72-77: zero, or the window minus the time since its start
FWReserveWait(p) ==
    IF procs[p].rd < fw.limit THEN 0 ELSE fw.window - (now - fw.windowStart)

\* Reserve returns to its caller; in Wait, lines 39-46: continue when the
\* wait is not positive, else draw the jitter (rand.Int63n panics on a bound
\* that is not positive) and sleep wait + jitter
FWReserveDone(p) ==
    /\ procs[p].pc = "fw_reserve"
    /\ mu' = mu \ {p}
    /\ LET wait == FWReserveWait(p) IN
       IF procs[p].op = "Reserve"
       THEN /\ procs' = [procs EXCEPT ![p] = Return(@)]
            /\ h' = Returned(h, p, "dur", wait, FALSE)
       ELSE /\ h' = h
            /\ IF wait <= 0
               THEN procs' = [procs EXCEPT ![p].pc = "fw_loop", ![p].rd = 0]
               ELSE IF wait \div 4 <= 0
               THEN procs' = [procs EXCEPT ![p].pc = "panic", ![p].rd = 0]
               ELSE \E jitter \in 0..((wait \div 4) - 1) :
                        procs' = [procs EXCEPT ![p].pc = "fw_sleep", ![p].rd = 0,
                                               ![p].w = now + wait + jitter]
    /\ UNCHANGED <<notFW, now, fw>>

\* Wait, line 46: time.Sleep is over, back to the head of the loop
FWWake(p) ==
    /\ FWRunning
    /\ procs[p].pc = "fw_sleep"
    /\ now >= procs[p].w
    /\ procs' = [procs EXCEPT ![p].pc = "fw_loop", ![p].w = 0]
    /\ UNCHANGED <<notFW, now, mu, fw, h>>

\* Reset, line 87: Lock
FWResetLock(p) ==
    /\ FWRunning
    /\ CanCall(p)
    /\ FWMuFree
    /\ mu' = mu \cup {p}
    /\ procs' = [procs EXCEPT ![p] = StartProc("fw_reset", "Reset", FALSE)]
    /\ h' = Called(p, "Reset")
    /\ UNCHANGED <<notFW, now, fw>>

\* Reset, lines 90-91 and the deferred Unlock
FWResetDone(p) ==
    /\ procs[p].pc = "fw_reset"
    /\ mu' = mu \ {p}
    /\ fw' = [fw EXCEPT !.count = 0, !.windowStart = now]
    /\ procs' = [procs EXCEPT ![p] = Return(@)]
    /\ h' = Returned([h EXCEPT !.winAdm = 0], p, "done", 0, FALSE)
    /\ UNCHANGED <<notFW, now>>

InitFW ==
    /\ limiter = "FixedWindow"
    /\ now = 0
    /\ mu = {}
    /\ tb = NoTokenBucket
    /\ \E r \in FWRates : fw = NewFixedWindow(r)
    /\ fdl = NoFixedDelayLimiter
    /\ config = DefaultConfig
    /\ made = NothingMade
    /\ client = "none"
    /\ fetcher = NoFetch
    /\ do = [p \in Procs |-> NoDo]
    /\ procs = [p \in Procs |-> IdleProc]
    /\ h = InitHist

NextFW ==
    \/ Tick
    \/ \E p \in Procs :
        \/ CtxCancel(p)
        \/ \E c \in BOOLEAN : FWWaitCall(p, c)
        \/ FWAllowLock(p) \/ FWAllowDone(p)
        \/ FWReserveLock(p) \/ FWReserveDone(p)
        \/ FWWake(p)
        \/ FWResetLock(p) \/ FWResetDone(p)

SpecFW == InitFW /\ [][NextFW]_vars

----------------------------------------------------------------------------
\* Properties of FixedWindow (checked under SpecFW)

\* C5: with limit = floor(requestsPerSecond), between two consecutive window
\* starts (construction, an expired-window reset, Reset) at most limit calls
\* are admitted, whatever the interleaving of Allow and Wait callers.
C5_WindowCap ==
    limiter = "FixedWindow" => 2 * h.winAdm <= fw.config.rps2

\* a window in which limit >= 1 calls were admitted and one more is refused
C5_Witness ==
    /\ limiter = "FixedWindow"
    /\ fw.limit >= 1
    /\ h.winAdm = fw.limit
    /\ \E p \in Procs : procs[p].pc = "fw_refused"

\* C7: a FixedWindow.Wait that is refused (the window is full) while its
\* context is canceled does nothing more than return the context's error: it
\* neither sleeps nor goes on to be admitted.
C7_WaitHonoursCancel ==
    [][\A p \in Procs :
        (/\ limiter = "FixedWindow"
         /\ procs[p].pc = "fw_refused"
         /\ procs[p].ctx
         /\ procs'[p] # procs[p])
        => (/\ procs'[p].pc = "idle"
            /\ h'.last.p = p /\ h'.last.res = "ctxErr")]_vars

\* caller p enters FixedWindow.Allow (on its own or from Wait) in this step
FWAllowEnters(p) ==
    procs[p].pc \in {"idle", "fw_loop"} /\ procs'[p].pc = "fw_allow"

\* FixedWindow.Allow of caller p returns in this step
FWAllowLeaves(p) ==
    procs[p].pc = "fw_allow" /\ procs'[p].pc # "fw_allow"

\* C21: on a FixedWindow with limit L >= 1, an Allow() returns true while
\* fewer than L calls were admitted in the current window and false once L
\* were; an Allow() that finds now - windowStart >= window sets count to
\* zero and starts a new window at now (and so returns true), and one that
\* finds the window running leaves it as it is.
C21_AllowSequence ==
    [][\A p \in Procs :
        (limiter = "FixedWindow" /\ fw.limit >= 1) =>
            /\ FWAllowEnters(p) =>
                   IF now - fw.windowStart >= fw.window
                   THEN /\ fw' = [fw EXCEPT !.count = 0, !.windowStart = now]
                        /\ h'.winAdm = 0
                   ELSE fw' = fw
            /\ FWAllowLeaves(p) =>
                   IF h.winAdm < fw.limit
                   THEN /\ procs'[p].pc = "idle"
                        /\ h'.last.p = p /\ h'.last.res \in {"true", "nil"}
                        /\ fw' = [fw EXCEPT !.count = fw.count + 1]
                   ELSE /\ fw' = fw
                        /\ IF procs[p].op = "Allow"
                           THEN procs'[p].pc = "idle" /\ h'.last.p = p
                                /\ h'.last.res = "false"
                           ELSE procs'[p].pc = "fw_refused"]_vars

\* after a full window in which the last Allow() was refused, an Allow() has
\* found the window expired, started a new one and returned true
C21_Witness ==
    /\ limiter = "FixedWindow" /\ fw.limit >= 1 /\ ~h.wasReset
    /\ h.onlyAllow /\ h.calls = fw.limit + 2
    /\ h.last.op = "Allow" /\ h.last.res = "true"
    /\ fw.windowStart >= fw.window
    /\ fw.count = 1

\* FixedWindow.Reserve, called by caller p on its own, returns in this step
FWReserveLeaves(p) ==
    /\ limiter = "FixedWindow"
    /\ procs[p].pc = "fw_reserve" /\ procs[p].op = "Reserve"
    /\ procs'[p].pc = "idle"

\* C30: a FixedWindow.Reserve() that finds count < limit after the
\* expired-window check admits the caller, incrementing count and returning
\* zero; otherwise it returns the time left in the window, window - elapsed,
\* and leaves count as it is.
C30_ReserveAdmits ==
    [][\A p \in Procs :
        FWReserveLeaves(p) =>
            IF fw.count < fw.limit
            THEN h'.last.w = 0 /\ fw'.count = fw.count + 1
            ELSE /\ h'.last.w = fw.window - (now - fw.windowStart)
                 /\ fw'.count = fw.count]_vars

\* C31: a FixedWindow built with 0 < requestsPerSecond < 1 has limit 0; no
\* Allow() on it ever returns true, in any window, and no Wait on it ever
\* returns nil: nothing is ever admitted.
C31_LimitZeroRefuses ==
    (limiter = "FixedWindow" /\ 0 < fw.config.rps2 /\ fw.config.rps2 < 2) =>
        /\ fw.limit = 0
        /\ fw.count = 0
        /\ h.winAdm = 0
        /\ h.last.res \notin {"true", "nil"}
        /\ ~h.last.took

\* on such a limiter a Wait is asleep until the end of the first window, and
\* an Allow() that started the second window has returned false
C31_Witness ==
    /\ limiter = "FixedWindow" /\ fw.config.rps2 = 1
    /\ fw.windowStart >= fw.window
    /\ h.last.op = "Allow" /\ h.last.res = "false"
    /\ \E p \in Procs : procs[p].op = "Wait" /\ procs[p].pc = "fw_sleep"

\* C34: FixedWindow.Wait never crashes: whenever its Reserve returned a
\* positive wait w, the bound w / 4 it passes to the random generator is
\* positive and it goes to sleep for at least w and less than w + w / 4,
\* however short w is.
C34_WaitNeverCrashes ==
    [][\A p \in Procs :
        (/\ limiter = "FixedWindow"
         /\ procs[p].pc = "fw_reserve" /\ procs[p].op = "Wait"
         /\ procs'[p] # procs[p]
         /\ FWReserveWait(p) > 0)
        => LET w == FWReserveWait(p) IN
           /\ w \div 4 > 0
           /\ procs'[p].pc = "fw_sleep"
           /\ procs'[p].w - now >= w
           /\ procs'[p].w - now < w + (w \div 4)]_vars

\* C35: on a FixedWindow of limit L that is never Reset, every interval of
\* one window length, wherever it starts, holds at most L admissions (seen
\* here on the runs of Allow() calls).
C35_RollingWindowCap ==
    (limiter = "FixedWindow" /\ h.onlyAllow) =>
        \A a \in Times :
            AdmittedIn(a, Min(a + fw.window - 1, MaxTime)) <= fw.limit

----------------------------------------------------------------------------
\* FixedDelayLimiter

\* time.Time{}: no request recorded
ZeroTime == 0 - 1

\* cfg.FixedDelay after applyDefaults, in ticks
Delays == {2, 3}

NewFixedDelayLimiter(d) == [delay |-> d, lastRequest |-> ZeroTime]

FDMuFreeRacy == TRUE

FDMuFree == mu = {}

reserveShort(last, delay, t) ==
    IF last = ZeroTime THEN 0
    ELSE IF t - last >= delay - 1 THEN 0 ELSE delay - (t - last)

\* reserve(now): the wait computed from the loaded lastRequest
reserve(last, delay, t) ==
    IF last = ZeroTime THEN 0
    ELSE LET elapsed == t - last IN
         IF elapsed >= delay THEN 0 ELSE delay - elapsed

\* an admission: its slot (the time the limiter booked for it) and the
\* moment the call returned
Logged(hh, slot, at) == [hh EXCEPT !.log = Append(@, [slot |-> slot, at |-> at])]

\* Wait, lines 2738-2739: Lock, read the clock, load lastRequest
FDWaitLock(p, c) ==
    /\ limiter = "FixedDelayLimiter"
    /\ CanCall(p)
    /\ FDMuFree
    /\ mu' = mu \cup {p}
    /\ procs' = [procs EXCEPT ![p] =
           [StartProc("fd_wait", "Wait", c) EXCEPT !.rd = fdl.lastRequest, !.t = now]]
    /\ h' = Called(p, "Wait")
    /\ UNCHANGED <<notFD, now, fdl>>

\* Wait, lines 2739-2747: lastRequest = now + wait, Unlock; nil when there
\* is nothing to wait for, else start the timer
FDWaitReserved(p) ==
    /\ procs[p].pc = "fd_wait"
    /\ mu' = mu \ {p}
    /\ LET wait == reserve(procs[p].rd, fdl.delay, procs[p].t) IN
       /\ fdl' = [fdl EXCEPT !.lastRequest = procs[p].t + wait]
       /\ IF wait <= 0
          THEN /\ procs' = [procs EXCEPT ![p] = Return(@)]
               /\ h' = Returned(Logged(h, procs[p].t, now), p, "nil", 0, TRUE)
          ELSE /\ procs' = [procs EXCEPT ![p].pc = "fd_select", ![p].w = now + wait]
               /\ h' = h
    /\ UNCHANGED <<notFD, now>>

\* Wait, lines 2749-2751: ctx.Done() is ready
FDWaitCancel(p) ==
    /\ procs[p].pc = "fd_select"
    /\ procs[p].ctx
    /\ procs' = [procs EXCEPT ![p] = Return(@)]
    /\ h' = Returned(h, p, "ctxErr", 0, FALSE)
    /\ UNCHANGED <<notFD, now, mu, fdl>>

\* <-timer.C is ready
FDTimerFired(p) == now >= procs[p].w

\* Wait, lines 2752-2753: the timer fired, nil
FDWaitTimer(p) ==
    /\ procs[p].pc = "fd_select"
    /\ FDTimerFired(p)
    /\ procs' = [procs EXCEPT ![p] = Return(@)]
    /\ h' = Returned(Logged(h, procs[p].w, now), p, "nil", 0, TRUE)
    /\ UNCHANGED <<notFD, now, mu, fdl>>

\* Allow, lines 2759-2762: Lock, read the clock, load lastRequest
FDAllowLock(p) ==
    /\ limiter = "FixedDelayLimiter"
    /\ CanCall(p)
    /\ FDMuFree
    /\ mu' = mu \cup {p}
    /\ procs' = [procs EXCEPT ![p] =
           [StartProc("fd_allow", "Allow", FALSE) EXCEPT !.rd = fdl.lastRequest, !.t = now]]
    /\ h' = Called(p, "Allow")
    /\ UNCHANGED <<notFD, now, fdl>>

FDAllowDoneForgets(p) ==
    /\ procs[p].pc = "fd_allow"
    /\ mu' = mu \ {p}
    /\ IF reserve(procs[p].rd, fdl.delay, procs[p].t) > 0
       THEN h' = Returned(h, p, "false", 0, FALSE)
       ELSE h' = Returned(Logged(h, procs[p].t, now), p, "true", 0, TRUE)
    /\ procs' = [procs EXCEPT ![p] = Return(@)]
    /\ UNCHANGED <<notFD, now, fdl>>

\* Allow, lines 2762-2768: false when a wait is needed, else lastRequest =
\* now and true; deferred Unlock
FDAllowDone(p) ==
    /\ procs[p].pc = "fd_allow"
    /\ mu' = mu \ {p}
    /\ IF reserve(procs[p].rd, fdl.delay, procs[p].t) > 0
       THEN /\ fdl' = fdl
            /\ h' = Returned(h, p, "false", 0, FALSE)
       ELSE /\ fdl' = [fdl EXCEPT !.lastRequest = procs[p].t]
            /\ h' = Returned(Logged(h, procs[p].t, now), p, "true", 0, TRUE)
    /\ procs' = [procs EXCEPT ![p] = Return(@)]
    /\ UNCHANGED <<notFD, now>>

\* Reserve, lines 2773-2776: Lock, read the clock, load lastRequest
FDReserveLock(p) ==
    /\ limiter = "FixedDelayLimiter"
    /\ CanCall(p)
    /\ FDMuFree
    /\ mu' = mu \cup {p}
    /\ procs' = [procs EXCEPT ![p] =
           [StartProc("fd_reserve", "Reserve", FALSE) EXCEPT !.rd = fdl.lastRequest, !.t = now]]
    /\ h' = Called(p, "Reserve")
    /\ UNCHANGED <<notFD, now, fdl>>

\* Reserve, lines 2776-2777: the wait, nothing stored; deferred Unlock
FDReserveDone(p) ==
    /\ procs[p].pc = "fd_reserve"
    /\ mu' = mu \ {p}
    /\ procs' = [procs EXCEPT ![p] = Return(@)]
    /\ h' = Returned(h, p, "dur", reserve(procs[p].rd, fdl.delay, procs[p].t), FALSE)
    /\ UNCHANGED <<notFD, now, fdl>>

\* Reset, line 2800: Lock
FDResetLock(p) ==
    /\ limiter = "FixedDelayLimiter"
    /\ CanCall(p)
    /\ FDMuFree
    /\ mu' = mu \cup {p}
    /\ procs' = [procs EXCEPT ![p] = StartProc("fd_reset", "Reset", FALSE)]
    /\ h' = Called(p, "Reset")
    /\ UNCHANGED <<notFD, now, fdl>>

\* Reset, line 2802 and the deferred Unlock
FDResetDone(p) ==
    /\ procs[p].pc = "fd_reset"
    /\ mu' = mu \ {p}
    /\ fdl' = [fdl EXCEPT !.lastRequest = ZeroTime]
    /\ procs' = [procs EXCEPT ![p] = Return(@)]
    /\ h' = Returned(h, p, "done", 0, FALSE)
    /\ UNCHANGED <<notFD, now>>

InitFD ==
    /\ limiter = "FixedDelayLimiter"
    /\ now = 0
    /\ mu = {}
    /\ tb = NoTokenBucket
    /\ fw = NoFixedWindow
    /\ \E d \in Delays : fdl = NewFixedDelayLimiter(d)
    /\ config = DefaultConfig
    /\ made = NothingMade
    /\ client = "none"
    /\ fetcher = NoFetch
    /\ do = [p \in Procs |-> NoDo]
    /\ procs = [p \in Procs |-> IdleProc]
    /\ h = InitHist

NextFD ==
    \/ Tick
    \/ \E p \in Procs :
        \/ CtxCancel(p)
        \/ \E c \in BOOLEAN : FDWaitLock(p, c)
        \/ FDWaitReserved(p) \/ FDWaitCancel(p) \/ FDWaitTimer(p)
        \/ FDAllowLock(p) \/ FDAllowDone(p)
        \/ FDReserveLock(p) \/ FDReserveDone(p)
        \/ FDResetLock(p) \/ FDResetDone(p)

SpecFD == InitFD /\ [][NextFD]_vars

----------------------------------------------------------------------------
\* Properties of FixedDelayLimiter (checked under SpecFD)

Abs(x) == IF x < 0 THEN 0 - x ELSE x

\* C6 as claimed: on a limiter that was never Reset, any two successive
\* admissions (Allow true, Wait nil at the moment it returns) are at least
\* the delay apart in time.
C6_SpacingAtReturn ==
    (limiter = "FixedDelayLimiter" /\ ~h.wasReset) =>
        \A i \in 1..Len(h.log) :
            i > 1 => h.log[i].at - h.log[i - 1].at >= fdl.delay

\* C6 as amended: on a limiter that was never Reset, the slots of any two
\* admissions (the clock reading of an Allow that returns true, the time
\* now + wait a Wait records in lastRequest) are at least the delay apart,
\* and no admission returns before its slot.
C6_SpacingOfSlots ==
    (limiter = "FixedDelayLimiter" /\ ~h.wasReset) =>
        /\ \A i \in 1..Len(h.log), j \in 1..Len(h.log) :
               i # j => Abs(h.log[i].slot - h.log[j].slot) >= fdl.delay
        /\ \A i \in 1..Len(h.log) : h.log[i].at >= h.log[i].slot

\* an Allow and a Wait that had to sleep have both been admitted
C6_Witness ==
    /\ limiter = "FixedDelayLimiter" /\ ~h.wasReset
    /\ Len(h.log) >= 2
    /\ \E i \in 1..Len(h.log) : h.log[i].slot > 0 /\ h.log[i].at = h.log[i].slot
    /\ h.last.op = "Wait" /\ h.last.res = "nil"

\* C9: a FixedDelayLimiter.Wait that is canceled while sleeping returns the
\* context's error and has consumed no capacity: lastRequest, which still
\* holds what this call stored, is put back to what it was before the call.
C9_CancelRestores ==
    [][\A p \in Procs :
        (/\ limiter = "FixedDelayLimiter"
         /\ procs[p].pc = "fd_select"
         /\ procs[p].ctx
         /\ procs'[p].pc = "idle"
         /\ h'.last.res = "ctxErr"
         /\ fdl.lastRequest = procs[p].t + reserve(procs[p].rd, fdl.delay, procs[p].t))
        => fdl'.lastRequest = procs[p].rd]_vars

\* the slots of the admissions that have returned
Slots == {h.log[i].slot : i \in 1..Len(h.log)}

\* the latest of them
LastSlot == CHOOSE s \in Slots : \A x \in Slots : x <= s

\* FixedDelayLimiter.Allow of caller p returns in this step
FDAllowLeaves(p) == procs[p].pc = "fd_allow" /\ procs'[p].pc = "idle"

\* FixedDelayLimiter.Reserve of caller p returns in this step
FDReserveLeaves(p) == procs[p].pc = "fd_reserve" /\ procs'[p].pc = "idle"

\* on a limiter that was never Reset: the first call, if an Allow(), returns
\* true, and an Allow() made less than the delay after the slot of an
\* admission returns false
FDAllowSpaced(p) ==
    FDAllowLeaves(p) =>
        /\ h.calls = 1 => h'.last.res = "true"
        /\ (\E s \in Slots : procs[p].t - s < fdl.delay) => h'.last.res = "false"

C32_ReserveRecordsFirst ==
    [][\A p \in Procs :
        (/\ limiter = "FixedDelayLimiter"
         /\ FDReserveLeaves(p)
         /\ fdl.lastRequest = ZeroTime)
        => (/\ h'.last.w = 0
            /\ fdl'.lastRequest = procs[p].t
            /\ reserve(fdl'.lastRequest, fdl.delay, procs[p].t) > 0)]_vars

\* C33: a FixedDelayLimiter.Reserve() called e < delay after the recorded
\* admission returns delay - e and moves the recorded admission time forward,
\* so that a second caller reserving at the same instant is told to wait one
\* delay longer.
C33_ReserveAdvances ==
    [][\A p \in Procs :
        (/\ limiter = "FixedDelayLimiter"
         /\ FDReserveLeaves(p)
         /\ fdl.lastRequest # ZeroTime
         /\ procs[p].t - fdl.lastRequest < fdl.delay)
        => (/\ h'.last.w = fdl.delay - (procs[p].t - fdl.lastRequest)
            /\ fdl'.lastRequest > fdl.lastRequest
            /\ reserve(fdl'.lastRequest, fdl.delay, procs[p].t)
                   = h'.last.w + fdl.delay)]_vars

----------------------------------------------------------------------------
\* The three limiters behind the Limiter interface

\* a limiter of each kind; the fixed window is one that admits requests
InitLimiters == InitTB \/ (InitFW /\ fw.limit > 0) \/ InitFD

NextLimiters == NextTB \/ NextFW \/ NextFD

SpecLimiters == InitLimiters /\ [][NextLimiters]_vars

\* where a caller is between Lock and Unlock
Locked ==
    {"tb_allow", "tb_wait1", "tb_wait2", "tb_reserve", "tb_reset",
     "fw_allow", "fw_reserve", "fw_reset",
     "fd_wait", "fd_allow", "fd_reserve", "fd_reset"}

\* where a caller sleeps or is blocked in a select on a timer
Sleeping == {"tb_select", "fw_sleep", "fd_select"}

\* C24: in every reachable state of every limiter the lock is held by at
\* most one caller and only by one that is between the Lock and the Unlock
\* of a refill/check/update sequence: never by one that sleeps or waits on
\* a timer, nor by one that has returned; so when the callers inside a call
\* are all sleeping the lock is free and another caller's Allow can take it.
C24_NoLockAcrossSleep ==
    /\ Cardinality(mu) <= 1
    /\ \A p \in Procs : p \in mu <=> procs[p].pc \in Locked
    /\ \A p \in Procs : procs[p].pc \in Sleeping \cup {"idle"} => p \notin mu
    /\ (\A p \in Procs : procs[p].pc \in Sleeping \cup {"idle"}) => mu = {}

\* while a Wait sleeps on its timer, another caller is inside Allow holding
\* the lock
C24_Witness ==
    \E p \in Procs, q \in Procs :
        /\ procs[p].pc = "tb_select"
        /\ procs[q].pc = "tb_allow" /\ mu = {q}

\* C20: when Reset returns, after any sequence of operations, the limiter is
\* in the state of a limiter constructed at that moment from the same
\* configuration (a TokenBucket has tokens = burst, a FixedWindow count = 0
\* and a window starting now, a FixedDelayLimiter no last request), so what
\* Allow, Reserve and Wait return from then on is what they return on a
\* fresh limiter; the configuration is unchanged.
C20_ResetIsFresh ==
    [][\A p \in Procs :
        (procs[p].op = "Reset" /\ procs[p].pc # "idle" /\ procs'[p].pc = "idle")
        => /\ limiter = "TokenBucket" => tb' = NewTokenBucket(tb.rate, tb.burst)
           /\ limiter = "FixedWindow" => fw' = NewFixedWindow(fw.config.rps2)
           /\ limiter = "FixedDelayLimiter" => fdl' = NewFixedDelayLimiter(fdl.delay)
           /\ config' = config /\ limiter' = limiter]_vars

\* a Reset has returned on a TokenBucket that had admitted calls and
\* refilled at a later time
C20_Witness ==
    /\ limiter = "TokenBucket"
    /\ h.last.op = "Reset"
    /\ now > 0
    /\ \E x \in Times : h.adm[x] > 0
    /\ tb = NewTokenBucket(tb.rate, tb.burst)

----------------------------------------------------------------------------
\* Backoff

RECURSIVE Pow(_, _)
Pow(b, e) == IF e <= 0 THEN 1 ELSE b * Pow(b, e - 1)

\* line 22: float64(cfg.InitialBackoff) * math.Pow(cfg.BackoffMultiplier,
\* attempt-1), the multiplier being counted in halves: the fraction num / den
BackoffRamp(attempt, cfg) ==
    [num |-> cfg.InitialBackoff * Pow(cfg.BackoffMultiplier, attempt - 1),
     den |-> Pow(2, attempt - 1)]

\* lines 23-25: the ramp clipped to MaxBackoff
ClipToMax(r, cfg) ==
    IF r.num > cfg.MaxBackoff * r.den THEN [num |-> cfg.MaxBackoff, den |-> 1]
    ELSE r

\* lines 27-28 and 37: base * (1 + 0.25 * (2k/JitterSteps - 1)) when
\* rand.Float64() draws k / JitterSteps, as a whole number of ticks
Jittered(base, k) ==
    (base.num * (3 * JitterSteps + 2 * k)) \div (base.den * 4 * JitterSteps)

CalculateBackoffJitteredCeiling(attempt, cfg, k) ==
    IF attempt <= 0 THEN 0
    ELSE LET base == IF attempt > cfg.MaxRetries
                     THEN [num |-> cfg.MaxBackoff, den |-> 1]
                     ELSE ClipToMax(BackoffRamp(attempt, cfg), cfg)
             backoff == Jittered(base, k)
         IN  IF backoff < 0 THEN 0
             ELSE IF backoff > cfg.MaxBackoff THEN cfg.MaxBackoff
             ELSE backoff

CalculateBackoffUnclipped(attempt, cfg, k) ==
    IF attempt <= 0 THEN 0
    ELSE IF attempt > cfg.MaxRetries THEN cfg.MaxBackoff
    ELSE LET backoff == Jittered(BackoffRamp(attempt, cfg), k)
         IN  IF backoff < 0 THEN 0 ELSE backoff

CalculateBackoffFromZero(attempt, cfg, k) ==
    IF attempt < 0 THEN 0
    ELSE IF attempt > cfg.MaxRetries THEN cfg.MaxBackoff
    ELSE LET backoff == Jittered(ClipToMax(BackoffRamp(attempt, cfg), cfg), k)
         IN  IF backoff < 0 THEN 0
             ELSE IF backoff > cfg.MaxBackoff THEN cfg.MaxBackoff
             ELSE backoff

\* CalculateBackoff(attempt, cfg): the clipped ramp with the jitter applied,
\* clipped to [0, MaxBackoff] and truncated to a Duration
CalculateBackoff(attempt, cfg, k) ==
    IF attempt <= 0 THEN 0
    ELSE IF attempt > cfg.MaxRetries THEN cfg.MaxBackoff
    ELSE LET backoff == Jittered(ClipToMax(BackoffRamp(attempt, cfg), cfg), k)
         IN  IF backoff < 0 THEN 0
             ELSE IF backoff > cfg.MaxBackoff THEN cfg.MaxBackoff
             ELSE backoff

\* what the limiter's RetryAfter(attempt) can return
RetryAfter(attempt) ==
    {CalculateBackoff(attempt, config, k) : k \in 0..(JitterSteps - 1)}

\* the arguments CalculateBackoff is called with: any attempt, and any cfg,
\* also one that applyDefaults has not seen (durations in ticks, the
\* multiplier in halves: 0, 0.5, 1, 2, 3)
Attempts == (0 - 1)..MaxAttempt

BackoffConfigs ==
    [MaxRetries : {0, 2, 3}, InitialBackoff : {0 - 1, 0, 1, 2, 4},
     MaxBackoff : {0 - 1, 0, 3, 8}, BackoffMultiplier : {0, 1, 2, 4, 6}]

\* CalculateBackoff(attempt, cfg) is called and returns
CalculateBackoffCall(attempt, k) ==
    /\ limiter = "none"
    /\ made.ctor = "none"
    /\ h' = [h EXCEPT !.lastBackoff =
                 [attempt |-> attempt, k |-> k,
                  d |-> CalculateBackoff(attempt, config, k)]]
    /\ UNCHANGED <<limiter, now, mu, tb, fw, fdl, config, made, client, fetcher, do,
                   procs>>

InitBackoff ==
    /\ limiter = "none"
    /\ now = 0
    /\ mu = {}
    /\ tb = NoTokenBucket
    /\ fw = NoFixedWindow
    /\ fdl = NoFixedDelayLimiter
    /\ config \in BackoffConfigs
    /\ made = NothingMade
    /\ client = "none"
    /\ fetcher = NoFetch
    /\ do = [p \in Procs |-> NoDo]
    /\ procs = [p \in Procs |-> IdleProc]
    /\ h = InitHist

NextBackoff ==
    \E attempt \in Attempts, k \in 0..(JitterSteps - 1) :
        CalculateBackoffCall(attempt, k)

SpecBackoff == InitBackoff /\ [][NextBackoff]_vars

----------------------------------------------------------------------------
\* Properties of CalculateBackoff (checked under SpecBackoff)

\* a call of CalculateBackoff has returned
BackoffReturned == limiter = "none" /\ made.ctor = "none" /\ h.lastBackoff # InitHist.lastBackoff

\* the ramp value the jitter is applied to: InitialBackoff *
\* BackoffMultiplier^(attempt-1), clipped to MaxBackoff
BackoffBase(attempt, cfg) == ClipToMax(BackoffRamp(attempt, cfg), cfg)

\* InitialBackoff, MaxBackoff and BackoffMultiplier are positive
PositiveBackoffConfig(cfg) ==
    cfg.InitialBackoff > 0 /\ cfg.MaxBackoff > 0 /\ cfg.BackoffMultiplier > 0

\* C14: CalculateBackoff(attempt, cfg) with attempt > cfg.MaxRetries returns
\* exactly cfg.MaxBackoff, whatever the jitter draw.
C14_CeilingNoJitter ==
    (BackoffReturned /\ h.lastBackoff.attempt > config.MaxRetries) =>
        h.lastBackoff.d = config.MaxBackoff

\* an attempt beyond MaxRetries, and a draw that would have lowered the result
C14_Witness ==
    /\ BackoffReturned
    /\ config.MaxRetries > 0 /\ config.MaxBackoff > 1
    /\ h.lastBackoff.attempt > config.MaxRetries
    /\ h.lastBackoff.k = 0
    /\ h.lastBackoff.d = config.MaxBackoff

\* C15 as claimed: for attempt in [1, MaxRetries] and every jitter draw the
\* result d satisfies max(0, 0.75*base) <= d <= min(1.25*base, MaxBackoff),
\* and d > 0 and d <= MaxBackoff for positive InitialBackoff and MaxBackoff.
C15_RampBounds ==
    (/\ BackoffReturned
     /\ PositiveBackoffConfig(config)
     /\ h.lastBackoff.attempt >= 1
     /\ h.lastBackoff.attempt <= config.MaxRetries) =>
        LET base == BackoffBase(h.lastBackoff.attempt, config)
            d == h.lastBackoff.d
        IN  /\ 3 * base.num <= 4 * d * base.den
            /\ 4 * d * base.den <= 5 * base.num
            /\ d > 0 /\ d <= config.MaxBackoff

\* C15 as amended: for positive InitialBackoff, MaxBackoff and
\* BackoffMultiplier, attempt in [1, MaxRetries] and every jitter draw, the
\* result d, a whole number of ticks, satisfies floor(0.75*base) <= d <=
\* min(1.25*base, MaxBackoff); d >= 0, and d > 0 once base is at least two
\* ticks.
C15_RampBoundsTruncated ==
    (/\ BackoffReturned
     /\ PositiveBackoffConfig(config)
     /\ h.lastBackoff.attempt >= 1
     /\ h.lastBackoff.attempt <= config.MaxRetries) =>
        LET base == BackoffBase(h.lastBackoff.attempt, config)
            d == h.lastBackoff.d
        IN  /\ (3 * base.num) \div (4 * base.den) <= d
            /\ 4 * d * base.den <= 5 * base.num
            /\ d >= 0 /\ d <= config.MaxBackoff
            /\ base.num >= 2 * base.den => d > 0

\* a ramp value above MaxBackoff was clipped and the largest draw applied
C15_Witness ==
    /\ BackoffReturned
    /\ PositiveBackoffConfig(config)
    /\ h.lastBackoff.attempt >= 2
    /\ h.lastBackoff.attempt <= config.MaxRetries
    /\ BackoffBase(h.lastBackoff.attempt, config)
           # BackoffRamp(h.lastBackoff.attempt, config)
    /\ h.lastBackoff.k = JitterSteps - 1
    /\ h.lastBackoff.d = config.MaxBackoff

\* C16: CalculateBackoff(attempt, cfg) returns 0 for every attempt <= 0, for
\* every cfg.
C16_NoAttemptNoWait ==
    (BackoffReturned /\ h.lastBackoff.attempt <= 0) => h.lastBackoff.d = 0

\* attempt 0 on a configuration whose backoffs are all positive
C16_Witness ==
    /\ BackoffReturned
    /\ PositiveBackoffConfig(config) /\ config.MaxRetries > 0
    /\ h.lastBackoff.attempt = 0
    /\ h.lastBackoff.d = 0

----------------------------------------------------------------------------
\* Configuration and factory

\* x <= 0 on a float64: false when x is NaN
FloatLeqZero(x) == x # NaN /\ x <= 0

\* int(x) of a float64, x in halves: truncation
IntOfHalves(x) == IF x = NaN THEN IntOfNaN ELSE {x \div 2}

Strategies == {"", "token_bucket", "fixed_window", "fixed_delay", "leaky_bucket"}

\* the Config values a constructor is called with
Configs ==
    [Strategy : Strategies,
     RequestsPerSec : {NaN, 0 - 2, 0, 3, 4},
     Burst : {0 - 1, 0, 2},
     FixedDelay : {0, 2},
     MaxRetries : {0, 3},
     InitialBackoff : {0, 2},
     MaxBackoff : {0 - 1, 8},
     BackoffMultiplier : {NaN, 0, 1, 4}]

applyDefaultsNegative(cfg) ==
    LET def == DefaultConfig IN
    [Strategy |-> IF cfg.Strategy = "" THEN def.Strategy ELSE cfg.Strategy,
     RequestsPerSec |-> IF FloatLeqZero(cfg.RequestsPerSec)
                        THEN def.RequestsPerSec ELSE cfg.RequestsPerSec,
     Burst |-> IF cfg.Burst <= 0 THEN def.Burst ELSE cfg.Burst,
     MaxRetries |-> IF cfg.MaxRetries <= 0 THEN def.MaxRetries ELSE cfg.MaxRetries,
     InitialBackoff |-> IF cfg.InitialBackoff <= 0
                        THEN def.InitialBackoff ELSE cfg.InitialBackoff,
     MaxBackoff |-> IF cfg.MaxBackoff <= 0 THEN def.MaxBackoff ELSE cfg.MaxBackoff,
     BackoffMultiplier |-> IF FloatLeqZero(cfg.BackoffMultiplier)
                           THEN def.BackoffMultiplier ELSE cfg.BackoffMultiplier,
     FixedDelay |-> IF cfg.FixedDelay < 0 THEN def.FixedDelay ELSE cfg.FixedDelay]

applyDefaults(cfg) ==
    LET def == DefaultConfig IN
    [Strategy |-> IF cfg.Strategy = "" THEN def.Strategy ELSE cfg.Strategy,
     RequestsPerSec |-> IF FloatLeqZero(cfg.RequestsPerSec)
                        THEN def.RequestsPerSec ELSE cfg.RequestsPerSec,
     Burst |-> IF cfg.Burst <= 0 THEN def.Burst ELSE cfg.Burst,
     MaxRetries |-> IF cfg.MaxRetries <= 0 THEN def.MaxRetries ELSE cfg.MaxRetries,
     InitialBackoff |-> IF cfg.InitialBackoff <= 0
                        THEN def.InitialBackoff ELSE cfg.InitialBackoff,
     MaxBackoff |-> IF cfg.MaxBackoff <= 0 THEN def.MaxBackoff ELSE cfg.MaxBackoff,
     BackoffMultiplier |-> IF FloatLeqZero(cfg.BackoffMultiplier)
                           THEN def.BackoffMultiplier ELSE cfg.BackoffMultiplier,
     FixedDelay |-> IF cfg.FixedDelay <= 0 THEN def.FixedDelay ELSE cfg.FixedDelay]

\* what a constructor returns: the dynamic type and the fields it set from
\* the Config it applied the defaults to (the other fields are 0)
Built(ctor, kind, cfg, c) ==
    [ctor |-> ctor, kind |-> kind, in |-> cfg, config |-> c,
     rate |-> 0, burst |-> 0, tokens |-> 0, limit |-> 0, window |-> 0, delay |-> 0]

\* NewTokenBucket(cfg)
BuiltTokenBucket(ctor, cfg) ==
    LET c == applyDefaults(cfg) IN
    [Built(ctor, "TokenBucket", cfg, c) EXCEPT
        !.rate = c.RequestsPerSec, !.burst = c.Burst, !.tokens = c.Burst]

\* NewFixedWindow(cfg), lim one of the values of int(cfg.RequestsPerSec)
BuiltFixedWindow(ctor, cfg, lim) ==
    LET c == applyDefaults(cfg) IN
    [Built(ctor, "FixedWindow", cfg, c) EXCEPT
        !.rate = c.RequestsPerSec, !.limit = lim, !.window = TicksPerSecond]

\* NewFixedDelayLimiter(cfg)
BuiltFixedDelayLimiter(ctor, cfg) ==
    LET c == applyDefaults(cfg) IN
    [Built(ctor, "FixedDelayLimiter", cfg, c) EXCEPT !.delay = c.FixedDelay]

NewLimiterUnknownAsFixedWindow(cfg) ==
    LET c == applyDefaults(cfg) IN
    IF c.Strategy = "token_bucket"
    THEN {BuiltTokenBucket("NewLimiter", c)}
    ELSE IF c.Strategy = "fixed_delay"
    THEN {BuiltFixedDelayLimiter("NewLimiter", c)}
    ELSE {BuiltFixedWindow("NewLimiter", c, lim) : lim \in IntOfHalves(c.RequestsPerSec)}

\* NewLimiter(cfg): the limiters it can return
NewLimiter(cfg) ==
    LET c == applyDefaults(cfg) IN
    IF c.Strategy = "fixed_window"
    THEN {BuiltFixedWindow("NewLimiter", c, lim) : lim \in IntOfHalves(c.RequestsPerSec)}
    ELSE IF c.Strategy = "fixed_delay"
    THEN {BuiltFixedDelayLimiter("NewLimiter", c)}
    ELSE {BuiltTokenBucket("NewLimiter", c)}

\* a constructor is called, once in a run, with any Config
NewLimiterCall ==
    /\ limiter = "unbuilt" /\ made.ctor = "none"
    /\ \E cfg \in Configs :
           \E l \in NewLimiter(cfg) : made' = [l EXCEPT !.in = cfg]
    /\ UNCHANGED <<limiter, now, mu, tb, fw, fdl, config, client, fetcher, do, procs,
                   h>>

NewTokenBucketCall ==
    /\ limiter = "unbuilt" /\ made.ctor = "none"
    /\ \E cfg \in Configs : made' = BuiltTokenBucket("NewTokenBucket", cfg)
    /\ UNCHANGED <<limiter, now, mu, tb, fw, fdl, config, client, fetcher, do, procs,
                   h>>

NewFixedWindowCall ==
    /\ limiter = "unbuilt" /\ made.ctor = "none"
    /\ \E cfg \in Configs :
           \E lim \in IntOfHalves(applyDefaults(cfg).RequestsPerSec) :
               made' = BuiltFixedWindow("NewFixedWindow", cfg, lim)
    /\ UNCHANGED <<limiter, now, mu, tb, fw, fdl, config, client, fetcher, do, procs,
                   h>>

NewFixedDelayLimiterCall ==
    /\ limiter = "unbuilt" /\ made.ctor = "none"
    /\ \E cfg \in Configs :
           made' = BuiltFixedDelayLimiter("NewFixedDelayLimiter", cfg)
    /\ UNCHANGED <<limiter, now, mu, tb, fw, fdl, config, client, fetcher, do, procs,
                   h>>

InitFactory ==
    /\ limiter = "unbuilt"
    /\ now = 0
    /\ mu = {}
    /\ tb = NoTokenBucket
    /\ fw = NoFixedWindow
    /\ fdl = NoFixedDelayLimiter
    /\ config = DefaultConfig
    /\ made = NothingMade
    /\ client = "none"
    /\ fetcher = NoFetch
    /\ do = [p \in Procs |-> NoDo]
    /\ procs = [p \in Procs |-> IdleProc]
    /\ h = InitHist

NextFactory ==
    \/ NewLimiterCall
    \/ NewTokenBucketCall
    \/ NewFixedWindowCall
    \/ NewFixedDelayLimiterCall

SpecFactory == InitFactory /\ [][NextFactory]_vars

----------------------------------------------------------------------------
\* Properties of the constructors (checked under SpecFactory)

\* a positive number
Positive(x) == x # NaN /\ x > 0

\* the caller's value when it is positive, else the default
PositiveOrDefault(out, in, def) ==
    /\ Positive(out)
    /\ out = (IF Positive(in) THEN in ELSE def)

\* C17: for every input Config the limiter a constructor builds operates
\* only on positive values: its rate, burst, fixed delay, MaxRetries,
\* InitialBackoff, MaxBackoff and BackoffMultiplier are each the caller's
\* positive value or the documented default.
C17_OnlyPositive ==
    made.ctor # "none" =>
        LET c == made.config
            i == made.in
            def == DefaultConfig
        IN  /\ PositiveOrDefault(c.RequestsPerSec, i.RequestsPerSec, def.RequestsPerSec)
            /\ PositiveOrDefault(c.Burst, i.Burst, def.Burst)
            /\ PositiveOrDefault(c.FixedDelay, i.FixedDelay, def.FixedDelay)
            /\ PositiveOrDefault(c.MaxRetries, i.MaxRetries, def.MaxRetries)
            /\ PositiveOrDefault(c.InitialBackoff, i.InitialBackoff, def.InitialBackoff)
            /\ PositiveOrDefault(c.MaxBackoff, i.MaxBackoff, def.MaxBackoff)
            /\ PositiveOrDefault(c.BackoffMultiplier, i.BackoffMultiplier,
                                 def.BackoffMultiplier)
            /\ made.kind = "TokenBucket" =>
                   made.rate = c.RequestsPerSec /\ made.burst = c.Burst
            /\ made.kind = "FixedWindow" => made.rate = c.RequestsPerSec
            /\ made.kind = "FixedDelayLimiter" => made.delay = c.FixedDelay

\* C18: NewTokenBucket from a Config with RequestsPerSec <= 0 has a rate of
\* one token per second (two halves), and from a Config with Burst <= 0 a
\* burst of the rate rounded to an integer, at least 1.
C18_TokenBucketDefaults ==
    made.ctor = "NewTokenBucket" =>
        /\ FloatLeqZero(made.in.RequestsPerSec) => made.rate = 2
        /\ (made.in.Burst <= 0 /\ made.rate # NaN) =>
               made.burst = (IF (made.rate + 1) \div 2 < 1 THEN 1
                             ELSE (made.rate + 1) \div 2)

\* C19: NewLimiter never fails and dispatches on the strategy tag:
\* "fixed_window" gives a FixedWindow, "fixed_delay" a FixedDelayLimiter and
\* every other tag, the empty and the unknown included, a TokenBucket.
C19_Dispatch ==
    /\ made.ctor = "NewLimiter" =>
           made.kind = (IF made.in.Strategy = "fixed_window" THEN "FixedWindow"
                        ELSE IF made.in.Strategy = "fixed_delay" THEN "FixedDelayLimiter"
                        ELSE "TokenBucket")
    /\ (limiter = "unbuilt" /\ made.ctor = "none") =>
           \A cfg \in Configs : NewLimiter(cfg) # {}

\* NewLimiter was given an unknown strategy and returned a TokenBucket
C19_Witness ==
    /\ made.ctor = "NewLimiter"
    /\ made.in.Strategy = "leaky_bucket"
    /\ made.kind = "TokenBucket"

\* C36: for every Config as a limiter stores it (after applyDefaults; seen
\* here on those whose multiplier is a number), the base delay
\* min(InitialBackoff * BackoffMultiplier^(attempt-1), MaxBackoff) does not
\* decrease from one attempt to the next over [1, MaxRetries].
C36_BaseNonDecreasing ==
    (made.ctor # "none" /\ made.config.BackoffMultiplier # NaN) =>
        \A a \in 1..(made.config.MaxRetries - 1) :
            LET x == BackoffBase(a, made.config)
                y == BackoffBase(a + 1, made.config)
            IN  x.num * y.den <= y.num * x.den

\* C39: applyDefaults replaces exactly the fields that are zero or negative
\* (the strategy: empty) by the values of DefaultConfig and leaves every
\* other field, the positive ones among them, as it is; applied to its own
\* result it changes nothing.
C39_ApplyDefaultsIdempotent ==
    (limiter = "unbuilt" /\ made.ctor # "none") =>
        LET c == made.config
            i == made.in
            def == DefaultConfig
        IN  /\ c = applyDefaults(i)
            /\ c.Strategy = (IF i.Strategy = "" THEN def.Strategy ELSE i.Strategy)
            /\ \A f \in {"RequestsPerSec", "Burst", "FixedDelay", "MaxRetries",
                          "InitialBackoff", "MaxBackoff", "BackoffMultiplier"} :
                   /\ Positive(i[f]) => c[f] = i[f]
                   /\ (i[f] # NaN /\ i[f] <= 0) => c[f] = def[f]
                   /\ c[f] # i[f] => (i[f] # NaN /\ i[f] <= 0)
            /\ applyDefaults(c) = c

\* a Config with an empty strategy, a zero burst and fixed delay and a
\* positive InitialBackoff went through applyDefaults
C39_Witness ==
    /\ limiter = "unbuilt" /\ made.ctor # "none"
    /\ made.in.Strategy = "" /\ made.config.Strategy = DefaultConfig.Strategy
    /\ made.in.Burst = 0 /\ made.config.Burst = DefaultConfig.Burst
    /\ made.in.FixedDelay = 0 /\ made.config.FixedDelay = DefaultConfig.FixedDelay
    /\ made.in.InitialBackoff = 2 /\ made.config.InitialBackoff = 2

----------------------------------------------------------------------------
\* The limiters from their construction on

\* cfg.RequestsPerSec, in halves of a token per second, as the bucket's rate
\* in units per tick
RateOf(rps2) ==
    IF rps2 = NaN THEN NaN ELSE (rps2 * OneToken) \div (2 * TicksPerSecond)

\* the Configs NewTokenBucket is called with
TBConfigs ==
    {[DefaultConfig EXCEPT !.RequestsPerSec = r, !.Burst = b] :
        r \in {NaN, 4}, b \in {1, 2}}

\* a TokenBucket as NewTokenBucket(cfg) returns it, lines 20-30
InitTBBuilt ==
    /\ limiter = "TokenBucket"
    /\ now = 0
    /\ mu = {}
    /\ \E cfg \in TBConfigs :
           LET l == BuiltTokenBucket("NewTokenBucket", cfg) IN
           /\ tb = NewTokenBucket(RateOf(l.rate), l.burst)
           /\ config = l.config
    /\ fw = NoFixedWindow
    /\ fdl = NoFixedDelayLimiter
    /\ made = NothingMade
    /\ client = "none"
    /\ fetcher = NoFetch
    /\ do = [p \in Procs |-> NoDo]
    /\ procs = [p \in Procs |-> IdleProc]
    /\ h = InitHist

SpecTBBuilt == InitTBBuilt /\ [][NextTB]_vars

\* C28: in every reachable state of a TokenBucket, after any interleaving
\* of Wait, Allow, Reserve, Reset and refill, 0 <= tokens <= burst.
C28_TokensInRange ==
    limiter = "TokenBucket" =>
        /\ tb.tokens # NaN
        /\ 0 <= tb.tokens
        /\ tb.tokens <= tb.burst * OneToken

\* the Configs NewFixedWindow is called with
FWConfigs == {[DefaultConfig EXCEPT !.RequestsPerSec = r] : r \in {NaN, 2, 4}}

\* a FixedWindow as NewFixedWindow(cfg) returns it, lines 21-30
InitFWBuilt ==
    /\ limiter = "FixedWindow"
    /\ now = 0
    /\ mu = {}
    /\ tb = NoTokenBucket
    /\ \E cfg \in FWConfigs :
           LET c == applyDefaults(cfg) IN
           \E lim \in IntOfHalves(c.RequestsPerSec) :
               LET l == BuiltFixedWindow("NewFixedWindow", cfg, lim) IN
               /\ fw = [NewFixedWindow(l.rate) EXCEPT !.limit = l.limit]
               /\ config = l.config
    /\ fdl = NoFixedDelayLimiter
    /\ made = NothingMade
    /\ client = "none"
    /\ fetcher = NoFetch
    /\ do = [p \in Procs |-> NoDo]
    /\ procs = [p \in Procs |-> IdleProc]
    /\ h = InitHist

SpecFWBuilt == InitFWBuilt /\ [][NextFW]_vars

\* C29: in every reachable state of a FixedWindow, after any interleaving of
\* Wait, Allow, Reserve and Reset, 0 <= count <= limit.
C29_CountInRange ==
    limiter = "FixedWindow" => (0 <= fw.count /\ fw.count <= fw.limit)

----------------------------------------------------------------------------
\* Configuration loader

\* the names a caller asks for
Sources == {"clinvar", "gnomad", "dbsnp"}

\* the names a YAML document has entries for
YamlSources == {"clinvar", "gnomad"}

\* the zero value of Config
ZeroConfig ==
    [Strategy |-> "", RequestsPerSec |-> 0, Burst |-> 0, FixedDelay |-> 0,
     MaxRetries |-> 0, InitialBackoff |-> 0, MaxBackoff |-> 0,
     BackoffMultiplier |-> 0]

\* a scalar that does not decode into the field it is given for
BadScalar == "soon"

\* a YAML scalar decoded into a float64, in halves
ParseFloat(v) ==
    CASE v = "3" -> 6
      [] v = "2" -> 4
      [] v = "0.5" -> 1
      [] v = "0" -> 0
      [] v = "-1" -> 0 - 2
      [] v = ".nan" -> NaN

\* a YAML scalar decoded into an int
ParseInt(v) ==
    CASE v = "5" -> 5
      [] v = "2" -> 2
      [] v = "0" -> 0
      [] v = "-1" -> 0 - 1

\* a YAML scalar decoded into a time.Duration (time.ParseDuration), in ticks
ParseDuration(v) ==
    CASE v = "1s" -> TicksPerSecond
      [] v = "2s" -> 2 * TicksPerSecond
      [] v = "60s" -> 60 * TicksPerSecond
      [] v = "0s" -> 0
      [] v = "-1s" -> 0 - TicksPerSecond

\* the entries of rate_limits a document can hold: a mapping from some of
\* the keys of Config's yaml tags to scalars
YamlEntries ==
    {[strategy |-> "token_bucket", requests_per_second |-> "3", burst |-> "5",
      max_retries |-> "5", initial_backoff |-> "1s", max_backoff |-> "60s",
      backoff_multiplier |-> "2"],
     [strategy |-> "fixed_window", requests_per_second |-> "0.5",
      fixed_delay |-> "2s"],
     [requests_per_second |-> "-1", burst |-> "-1", initial_backoff |-> "-1s",
      max_backoff |-> "0s", backoff_multiplier |-> "0"],
     [requests_per_second |-> ".nan", burst |-> "2"],
     [strategy |-> "fixed_delay", fixed_delay |-> BadScalar],
     [burst |-> "0"]}

\* a field of the decoded entry: the key's scalar, or the zero value when
\* the key is absent
YamlFloat(e, k) == IF k \in DOMAIN e THEN ParseFloat(e[k]) ELSE 0
YamlDuration(e, k) == IF k \in DOMAIN e THEN ParseDuration(e[k]) ELSE 0
YamlInt(e, k) == IF k \in DOMAIN e THEN ParseInt(e[k]) ELSE 0
YamlString(e, k) == IF k \in DOMAIN e THEN e[k] ELSE ""

\* yaml.Unmarshal reports an entry it cannot decode
Decodes(e) == \A k \in DOMAIN e : e[k] # BadScalar

\* yaml.Unmarshal of one entry into a Config
Unmarshal(e) ==
    [Strategy |-> YamlString(e, "strategy"),
     RequestsPerSec |-> YamlFloat(e, "requests_per_second"),
     Burst |-> YamlInt(e, "burst"),
     FixedDelay |-> YamlDuration(e, "fixed_delay"),
     MaxRetries |-> YamlInt(e, "max_retries"),
     InitialBackoff |-> YamlDuration(e, "initial_backoff"),
     MaxBackoff |-> YamlDuration(e, "max_backoff"),
     BackoffMultiplier |-> YamlFloat(e, "backoff_multiplier")]

\* a map[string]Config: nil, or a function on the names it holds
NilMap == [isNil |-> TRUE, m |-> <<>>]
MapOf(f) == [isNil |-> FALSE, m |-> f]

\* the YAML documents: one that is not YAML, one without rate_limits, and
\* those with a rate_limits mapping
Malformed == [ok |-> FALSE, rate_limits |-> NilMap]
YamlDocs ==
    {Malformed, [ok |-> TRUE, rate_limits |-> NilMap]}
    \cup {[ok |-> TRUE, rate_limits |-> MapOf(f)] :
              f \in UNION {[S -> YamlEntries] : S \in SUBSET YamlSources}}

\* LoadSourceConfigs(data): the SourceConfigs and the error
LoadSourceConfigs(data) ==
    LET r == data.rate_limits IN
    IF ~data.ok \/ \E n \in DOMAIN r.m : ~Decodes(r.m[n])
    THEN [RateLimits |-> NilMap, err |-> "yaml"]
    ELSE IF r.isNil
    THEN [RateLimits |-> NilMap, err |-> "nil"]
    ELSE [RateLimits |-> MapOf([n \in DOMAIN r.m |-> applyDefaults(Unmarshal(r.m[n]))]),
          err |-> "nil"]

GetAbsentIsNoError(s, source) ==
    IF s.RateLimits.isNil
    THEN [cfg |-> DefaultConfig, err |-> "no rate_limits configured"]
    ELSE IF source \notin DOMAIN s.RateLimits.m
    THEN [cfg |-> DefaultConfig, err |-> "nil"]
    ELSE [cfg |-> applyDefaults(s.RateLimits.m[source]), err |-> "nil"]

\* s.Get(source): the Config and the error
Get(s, source) ==
    IF s.RateLimits.isNil
    THEN [cfg |-> DefaultConfig, err |-> "no rate_limits configured"]
    ELSE IF source \notin DOMAIN s.RateLimits.m
    THEN [cfg |-> DefaultConfig, err |-> "rate_limits not found"]
    ELSE [cfg |-> applyDefaults(s.RateLimits.m[source]), err |-> "nil"]

\* Get has not been called
NoGet == [source |-> "", cfg |-> ZeroConfig, err |-> "none"]

\* the Configs a SourceConfigs literal is written with
LiteralConfigs ==
    {ZeroConfig, DefaultConfig,
     [ZeroConfig EXCEPT !.RequestsPerSec = 4, !.Burst = 0 - 1, !.MaxRetries = 2],
     [DefaultConfig EXCEPT !.Strategy = "fixed_delay", !.FixedDelay = 0]}

\* a YAML document is loaded
LoadSourceConfigsCall ==
    /\ limiter = "unconfigured" /\ made.ctor = "none"
    /\ \E data \in YamlDocs :
           made' = [ctor |-> "LoadSourceConfigs", data |-> data.rate_limits,
                    cfgs |-> LoadSourceConfigs(data), got |-> NoGet]
    /\ UNCHANGED <<limiter, now, mu, tb, fw, fdl, config, client, fetcher, do, procs,
                   h>>

\* a SourceConfigs is written as a literal, the zero value included
SourceConfigsLiteral ==
    /\ limiter = "unconfigured" /\ made.ctor = "none"
    /\ \E r \in {NilMap} \cup
               {MapOf(f) : f \in UNION {[S -> LiteralConfigs] : S \in SUBSET YamlSources}} :
           made' = [ctor |-> "SourceConfigs", data |-> r,
                    cfgs |-> [RateLimits |-> r, err |-> "nil"], got |-> NoGet]
    /\ UNCHANGED <<limiter, now, mu, tb, fw, fdl, config, client, fetcher, do, procs,
                   h>>

\* Get(source) is called on the SourceConfigs and returns
GetCall(source) ==
    /\ limiter = "unconfigured" /\ made.ctor # "none"
    /\ LET g == Get(made.cfgs, source) IN
       made' = [made EXCEPT !.got = [source |-> source, cfg |-> g.cfg, err |-> g.err]]
    /\ UNCHANGED <<limiter, now, mu, tb, fw, fdl, config, client, fetcher, do, procs,
                   h>>

InitLoader ==
    /\ limiter = "unconfigured"
    /\ now = 0
    /\ mu = {}
    /\ tb = NoTokenBucket
    /\ fw = NoFixedWindow
    /\ fdl = NoFixedDelayLimiter
    /\ config = DefaultConfig
    /\ made = NothingMade
    /\ client = "none"
    /\ fetcher = NoFetch
    /\ do = [p \in Procs |-> NoDo]
    /\ procs = [p \in Procs |-> IdleProc]
    /\ h = InitHist

NextLoader ==
    \/ LoadSourceConfigsCall
    \/ SourceConfigsLiteral
    \/ \E source \in Sources : GetCall(source)

SpecLoader == InitLoader /\ [][NextLoader]_vars

----------------------------------------------------------------------------
\* Properties of the loader (checked under SpecLoader)

\* a field Get returns for a stored one: the stored value when it is
\* positive, the default when it is zero or negative
DefaultApplied(out, in, def) ==
    /\ Positive(in) => out = in
    /\ (in # NaN /\ in <= 0) => out = def

\* C23: Get(source) returns the stored Config with the defaults applied and
\* a nil error when the source is present, and DefaultConfig() with a
\* non-nil error when the map is nil or the source is absent; a positive
\* field of a document loaded by LoadSourceConfigs is returned as written.
C23_Get ==
    (limiter = "unconfigured" /\ made.ctor # "none" /\ made.got # NoGet) =>
        LET r == made.cfgs.RateLimits
            g == made.got
            def == DefaultConfig
        IN  IF r.isNil \/ g.source \notin DOMAIN r.m
            THEN g.cfg = DefaultConfig /\ g.err # "nil"
            ELSE LET c == r.m[g.source]
                     i == IF made.ctor = "LoadSourceConfigs"
                          THEN Unmarshal(made.data.m[g.source])
                          ELSE made.data.m[g.source]
                 IN  /\ g.err = "nil"
                     /\ g.cfg.Strategy = (IF i.Strategy = "" THEN def.Strategy
                                          ELSE i.Strategy)
                     /\ \A f \in {"RequestsPerSec", "Burst", "FixedDelay", "MaxRetries",
                                   "InitialBackoff", "MaxBackoff", "BackoffMultiplier"} :
                            /\ DefaultApplied(g.cfg[f], c[f], def[f])
                            /\ DefaultApplied(g.cfg[f], i[f], def[f])

\* the document of TestConfigLoader was loaded and Get("clinvar") returned
\* its requests_per_second: 3
C23_Witness ==
    /\ limiter = "unconfigured" /\ made.ctor = "LoadSourceConfigs"
    /\ made.got.source = "clinvar" /\ made.got.err = "nil"
    /\ ~made.data.isNil /\ "clinvar" \in DOMAIN made.data.m
    /\ YamlString(made.data.m["clinvar"], "requests_per_second") = "3"
    /\ made.got.cfg.RequestsPerSec = 6

----------------------------------------------------------------------------
\* RateLimitedClient

\* the goroutines that call Do
Clients == {1, 2}

\* what a network call comes back with: a status, or a transport error
Outcomes == {"200", "429", "500", "netErr"}

\* history: caller p's Do returned, d is the record of that execution
DoReturned(p, d) ==
    [Returned(h, p, d.out, 0, FALSE) EXCEPT !.lastDo = d]

\* Do, line 878: c.limiter.Wait(ctx) is called
DoCall(p, c) ==
    /\ limiter = "Limiter" /\ client = "RateLimitedClient"
    /\ p \in Clients
    /\ CanCall(p)
    /\ procs' = [procs EXCEPT ![p] = StartProc("do_wait", "Do", c)]
    /\ do' = [do EXCEPT ![p] = NoDo]
    /\ h' = Called(p, "Do")
    /\ UNCHANGED <<notDo, now, mu>>

DoWaitErrIgnored(p) ==
    /\ procs[p].pc = "do_wait"
    /\ procs[p].ctx
    /\ procs' = [procs EXCEPT ![p].pc = "do_call1"]
    /\ do' = [do EXCEPT ![p].calls = @ + 1]
    /\ UNCHANGED <<notDo, now, mu, h>>

\* Do, lines 878-880: Wait returned an error (a limiter returns none but
\* the context's), Do returns it
DoWaitErr(p) ==
    /\ procs[p].pc = "do_wait"
    /\ procs[p].ctx
    /\ procs' = [procs EXCEPT ![p] = Return(@)]
    /\ do' = [do EXCEPT ![p] = NoDo]
    /\ h' = DoReturned(p, [do[p] EXCEPT !.out = "ctxErr"])
    /\ UNCHANGED <<notDo, now, mu>>

\* Do, lines 878-883: Wait returned nil, the request is sent
DoWaitNil(p) ==
    /\ procs[p].pc = "do_wait"
    /\ procs' = [procs EXCEPT ![p].pc = "do_call1"]
    /\ do' = [do EXCEPT ![p].waits = @ + 1, ![p].calls = @ + 1]
    /\ UNCHANGED <<notDo, now, mu, h>>

TooManyRequestsOrError(r) == r \in {"429", "netErr"}

\* Do, line 889: resp.StatusCode == http.StatusTooManyRequests, reached only
\* when the call returned no error (lines 884-886)
TooManyRequests(r) == r = "429"

\* Do, lines 883-900: the first call comes back; a transport error and any
\* status but 429 are returned, a 429 is discarded and Do sleeps for
\* limiter.RetryAfter(1)
DoFirstResponse(p, r) ==
    /\ procs[p].pc = "do_call1"
    /\ IF TooManyRequests(r)
       THEN \E backoff \in RetryAfter(1) :
               /\ procs' = [procs EXCEPT ![p].pc = "do_sleep", ![p].w = now + backoff]
               /\ do' = [do EXCEPT ![p].first = r, ![p].sleeps = @ + 1,
                                   ![p].slept = backoff]
               /\ h' = h
       ELSE /\ procs' = [procs EXCEPT ![p] = Return(@)]
            /\ do' = [do EXCEPT ![p] = NoDo]
            /\ h' = DoReturned(p, [do[p] EXCEPT !.first = r, !.out = r])
    /\ UNCHANGED <<notDo, now, mu>>

\* Do, lines 894-897: time.Sleep is over, the same request is sent again
DoRetry(p) ==
    /\ procs[p].pc = "do_sleep"
    /\ now >= procs[p].w
    /\ procs' = [procs EXCEPT ![p].pc = "do_call2", ![p].w = 0]
    /\ do' = [do EXCEPT ![p].calls = @ + 1]
    /\ UNCHANGED <<notDo, now, mu, h>>

DoSecondResponseAgain(p, r) ==
    /\ procs[p].pc = "do_call2"
    /\ IF r = "429"
       THEN /\ procs' = [procs EXCEPT ![p].pc = "do_sleep", ![p].w = now]
            /\ do' = [do EXCEPT ![p].second = r]
            /\ h' = h
       ELSE /\ procs' = [procs EXCEPT ![p] = Return(@)]
            /\ do' = [do EXCEPT ![p] = NoDo]
            /\ h' = DoReturned(p, [do[p] EXCEPT !.second = r, !.out = r])
    /\ UNCHANGED <<notDo, now, mu>>

\* Do, line 897: whatever the second call comes back with is returned
DoSecondResponse(p, r) ==
    /\ procs[p].pc = "do_call2"
    /\ procs' = [procs EXCEPT ![p] = Return(@)]
    /\ do' = [do EXCEPT ![p] = NoDo]
    /\ h' = DoReturned(p, [do[p] EXCEPT !.second = r, !.out = r])
    /\ UNCHANGED <<notDo, now, mu>>

----------------------------------------------------------------------------
\* clinvar Client

\* len(ids) of a Fetch
IdCounts == {0, 1}

\* Search, line 274: c.limiter.Wait(ctx) is called
CVSearchCall(p, c) ==
    /\ limiter = "Limiter" /\ client = "clinvar.Client"
    /\ p \in Clients
    /\ CanCall(p)
    /\ procs' = [procs EXCEPT ![p] = StartProc("cv_wait", "Search", c)]
    /\ do' = [do EXCEPT ![p] = NoDo]
    /\ h' = Called(p, "Search")
    /\ UNCHANGED <<notDo, now, mu>>

\* Fetch, lines 322-325: nil at once when there are no ids, else
\* c.limiter.Wait(ctx) is called
CVFetchCall(p, c, n) ==
    /\ limiter = "Limiter" /\ client = "clinvar.Client"
    /\ p \in Clients
    /\ CanCall(p)
    /\ IF n = 0
       THEN /\ procs' = procs
            /\ h' = [Called(p, "Fetch") EXCEPT
                         !.last = [p |-> p, op |-> "Fetch", res |-> "nil",
                                   w |-> 0, took |-> FALSE],
                         !.lastDo = [NoDo EXCEPT !.out = "nil"]]
       ELSE /\ procs' = [procs EXCEPT ![p] = StartProc("cv_wait", "Fetch", c)]
            /\ h' = Called(p, "Fetch")
    /\ do' = [do EXCEPT ![p] = NoDo]
    /\ UNCHANGED <<notDo, now, mu>>

\* Search, lines 274-276, Fetch, lines 325-327: Wait returned an error, the
\* call returns it
CVWaitErr(p) ==
    /\ procs[p].pc = "cv_wait"
    /\ procs[p].ctx
    /\ procs' = [procs EXCEPT ![p] = Return(@)]
    /\ do' = [do EXCEPT ![p] = NoDo]
    /\ h' = DoReturned(p, [do[p] EXCEPT !.out = "ctxErr"])
    /\ UNCHANGED <<notDo, now, mu>>

\* Search, lines 274-299, Fetch, lines 325-349: Wait returned nil, the
\* request is built and sent
CVWaitNil(p) ==
    /\ procs[p].pc = "cv_wait"
    /\ procs' = [procs EXCEPT ![p].pc = "cv_call"]
    /\ do' = [do EXCEPT ![p].waits = @ + 1, ![p].calls = @ + 1]
    /\ UNCHANGED <<notDo, now, mu, h>>

\* Search, lines 299-317, Fetch, lines 349-369: a transport error is
\* wrapped, a status other than 200 is an error, a 200 is decoded
CVResponse(p, r, decoded) ==
    /\ procs[p].pc = "cv_call"
    /\ LET out == IF r = "netErr" THEN "executeErr"
                  ELSE IF r # "200" THEN "statusErr"
                  ELSE IF decoded THEN "ok" ELSE "decodeErr"
       IN  h' = DoReturned(p, [do[p] EXCEPT !.out = out])
    /\ procs' = [procs EXCEPT ![p] = Return(@)]
    /\ do' = [do EXCEPT ![p] = NoDo]
    /\ UNCHANGED <<notDo, now, mu>>

\* the limiter configurations of the clients, durations in ticks
ClientConfigs ==
    {DefaultConfig,
     [MaxRetries |-> 2, InitialBackoff |-> 2, MaxBackoff |-> 3,
      BackoffMultiplier |-> 4]}

InitClient ==
    /\ limiter = "Limiter"
    /\ now = 0
    /\ mu = {}
    /\ tb = NoTokenBucket
    /\ fw = NoFixedWindow
    /\ fdl = NoFixedDelayLimiter
    /\ config \in ClientConfigs
    /\ made = NothingMade
    /\ client \in {"RateLimitedClient", "clinvar.Client"}
    /\ fetcher = NoFetch
    /\ do = [p \in Procs |-> NoDo]
    /\ procs = [p \in Procs |-> IdleProc]
    /\ h = InitHist

NextClient ==
    \/ Tick
    \/ \E p \in Procs :
        \/ CtxCancel(p)
        \/ \E c \in BOOLEAN : DoCall(p, c)
        \/ DoWaitErr(p) \/ DoWaitNil(p)
        \/ \E r \in Outcomes : DoFirstResponse(p, r)
        \/ DoRetry(p)
        \/ \E r \in Outcomes : DoSecondResponse(p, r)
        \/ \E c \in BOOLEAN : CVSearchCall(p, c)
        \/ \E c \in BOOLEAN, n \in IdCounts : CVFetchCall(p, c, n)
        \/ CVWaitErr(p) \/ CVWaitNil(p)
        \/ \E r \in Outcomes, decoded \in BOOLEAN : CVResponse(p, r, decoded)

SpecClient == InitClient /\ [][NextClient]_vars

----------------------------------------------------------------------------
\* Properties of RateLimitedClient (checked under SpecClient)

\* C10: Do retries exactly once when the first response is 429: it sleeps
\* once, for limiter.RetryAfter(1), sends the request a second time and
\* returns that second outcome whatever it is; no execution of Do makes more
\* than two network calls, and none retries after anything but a 429.
C10_SingleRetry ==
    limiter = "Limiter" =>
        \A d \in {do[p] : p \in Procs} \cup {h.lastDo} :
            /\ d.calls <= 2
            /\ d.sleeps <= 1
            /\ d.sleeps = 1 => d.first = "429" /\ d.slept \in RetryAfter(1)
            /\ d.calls = 2 => d.first = "429" /\ d.sleeps = 1
            /\ (d.first = "429" /\ d.out # "none") =>
                   /\ d.calls = 2
                   /\ d.sleeps = 1
                   /\ d.out = d.second

\* a Do whose first response was 429 has slept, sent the request again and
\* returned the second 429
C10_Witness ==
    /\ limiter = "Limiter"
    /\ h.last.op = "Do" /\ h.last.res = "429"
    /\ h.lastDo.first = "429" /\ h.lastDo.out = "429"
    /\ h.lastDo.calls = 2 /\ h.lastDo.sleeps = 1

\* C11 as claimed: a client call waits on the limiter before every outbound
\* request, so no call has sent more requests than it has been granted by
\* limiter.Wait.
C11_WaitBeforeEveryRequest ==
    limiter = "Limiter" =>
        \A d \in {do[p] : p \in Procs} \cup {h.lastDo} : d.calls <= d.waits

\* C11 as amended: a client call (Do, Search, Fetch) waits on the limiter
\* once, before its first outbound request: a request is sent only after
\* Wait returned nil, and a call whose Wait returned the cancellation error
\* returns that error and sends nothing; the one retry of Do is sent without
\* waiting on the limiter again.
C11_WaitBeforeFirstRequest ==
    limiter = "Limiter" =>
        /\ \A d \in {do[p] : p \in Procs} \cup {h.lastDo} :
               /\ d.waits <= 1
               /\ d.calls >= 1 => d.waits = 1
               /\ d.out = "ctxErr" => d.calls = 0 /\ d.waits = 0
               /\ d.calls = 2 => d.sleeps = 1
        /\ \A p \in Procs :
               /\ procs[p].pc \in {"do_wait", "cv_wait"} => do[p].calls = 0
               /\ procs[p].op \in {"Search", "Fetch"} => do[p].calls <= do[p].waits

\* a call whose Wait failed has returned the cancellation error, having
\* sent nothing
C11_Witness ==
    /\ limiter = "Limiter"
    /\ h.last.op \in {"Do", "Search", "Fetch"}
    /\ h.last.res = "ctxErr"
    /\ h.lastDo.out = "ctxErr" /\ h.lastDo.calls = 0

\* C12: when the first network call of Do fails at the transport level, Do
\* returns that error, makes no second call and does not sleep.
C12_TransportErrorNoRetry ==
    limiter = "Limiter" =>
        \A d \in {do[p] : p \in Procs} \cup {h.lastDo} :
            d.first = "netErr" =>
                /\ d.calls = 1 /\ d.sleeps = 0
                /\ d.out = "netErr"
                /\ d.second = "none"

\* a Do whose first call failed at the transport level has returned
C12_Witness ==
    /\ limiter = "Limiter"
    /\ h.last.op = "Do" /\ h.last.res = "netErr"
    /\ h.lastDo.first = "netErr" /\ h.lastDo.calls = 1

\* C13: when the context is canceled during the backoff sleep of Do, Do does
\* nothing more than return the cancellation error: it does not send the
\* retry.
C13_SleepCancellable ==
    [][\A p \in Procs :
        (/\ limiter = "Limiter"
         /\ procs[p].pc = "do_sleep"
         /\ procs[p].ctx
         /\ procs'[p] # procs[p])
        => (/\ procs'[p].pc = "idle"
            /\ h'.last.p = p /\ h'.last.res = "ctxErr")]_vars

----------------------------------------------------------------------------
\* Fetcher (clinvar): FetchSignificantSNPs and fetchByQuery

\* const batchSize, scaled down
batchSize == 2

\* the largest count a search reports
MaxCount == 4

\* the three queries of FetchSignificantSNPs, line 24
Queries == <<"pathogenic", "risk_factor", "drug_response">>

\* the rsIDs the variants of the server carry
RsIDs == {"rs1", "rs2", "rs3"}

\* a ClinVarSet that MapToSNP returns an error for
Unmappable == "unmappable"

\* what client.Fetch can return for a batch: up to batchSize ClinVarSets,
\* each standing for the rsID MapToSNP gives it
Batches ==
    UNION {[1..n -> RsIDs \cup {Unmappable}] : n \in 0..batchSize}

\* nothing has returned
NoReturn == [data |-> <<>>, err |-> "none"]

RECURSIVE CollectForgets(_, _)
CollectForgets(cvSets, acc) ==
    IF cvSets = <<>> THEN acc
    ELSE LET v == Head(cvSets) IN
         CollectForgets(Tail(cvSets),
             IF v = Unmappable THEN acc
             ELSE IF v \in acc.seen THEN [acc EXCEPT !.skipped = TRUE]
             ELSE [acc EXCEPT !.result = Append(@, v)])

\* fetchByQuery, lines 79-94: the variants of a batch in turn; one that does
\* not map or whose rsID was seen is skipped, the others are marked seen and
\* appended to the result
RECURSIVE Collect(_, _)
Collect(cvSets, acc) ==
    IF cvSets = <<>> THEN acc
    ELSE LET v == Head(cvSets) IN
         Collect(Tail(cvSets),
             IF v = Unmappable THEN acc
             ELSE IF v \in acc.seen THEN [acc EXCEPT !.skipped = TRUE]
             ELSE [acc EXCEPT !.seen = @ \cup {v}, !.result = Append(@, v)])

\* fetchByQuery returns (data, err) to FetchSignificantSNPs, lines 32-41: an
\* error ends the call with no data, else the data is appended and the next
\* query, if any, is taken
QueryReturns(f, data, err) ==
    LET g == [f EXCEPT !.byQuery = [data |-> data, err |-> err], !.result = <<>>,
                       !.start = 0, !.totalCount = 0]
        all == f.allData \o data
    IN  IF err # "none"
        THEN [g EXCEPT !.pc = "done", !.allData = <<>>,
                       !.ret = [data |-> <<>>, err |-> err]]
        ELSE IF f.q < Len(Queries)
        THEN [g EXCEPT !.pc = "query", !.q = @ + 1, !.allData = all]
        ELSE [g EXCEPT !.pc = "done", !.allData = all,
                       !.ret = [data |-> all, err |-> "none"]]

\* FetchSignificantSNPs, lines 24-29: called with a context that may already
\* be canceled
FetchSignificantSNPsCall(c) ==
    /\ client = "clinvar.Fetcher"
    /\ fetcher.pc = "idle"
    /\ fetcher' = [pc |-> "query", q |-> 1, start |-> 0, totalCount |-> 0,
                   seen |-> {}, result |-> <<>>, allData |-> <<>>, ctx |-> c,
                   skipped |-> FALSE, byQuery |-> NoReturn, ret |-> NoReturn]
    /\ UNCHANGED <<limiter, now, mu, tb, fw, fdl, config, made, client, do, procs, h>>

\* fetchByQuery, lines 47-50: the initial search fails, which it does when
\* the context is canceled
FetchByQuerySearchErr ==
    /\ client = "clinvar.Fetcher"
    /\ fetcher.pc = "query"
    /\ fetcher' = QueryReturns(fetcher, <<>>, "searchErr")
    /\ UNCHANGED <<limiter, now, mu, tb, fw, fdl, config, made, client, do, procs, h>>

\* fetchByQuery, lines 47-55: the initial search reports a count
FetchByQueryCall(count) ==
    /\ client = "clinvar.Fetcher"
    /\ fetcher.pc = "query"
    /\ ~fetcher.ctx
    /\ fetcher' = [fetcher EXCEPT !.pc = "batch", !.start = 0,
                                  !.totalCount = count, !.result = <<>>]
    /\ UNCHANGED <<limiter, now, mu, tb, fw, fdl, config, made, client, do, procs, h>>

\* fetchByQuery, lines 57 and 99: start has reached totalCount
FetchLoopEnd ==
    /\ client = "clinvar.Fetcher"
    /\ fetcher.pc = "batch"
    /\ fetcher.start >= fetcher.totalCount
    /\ fetcher' = QueryReturns(fetcher, fetcher.result, "none")
    /\ UNCHANGED <<limiter, now, mu, tb, fw, fdl, config, made, client, do, procs, h>>

\* fetchByQuery, lines 58-60: ctx.Done() is ready at the head of a batch
FetchBatchCanceled ==
    /\ client = "clinvar.Fetcher"
    /\ fetcher.pc = "batch"
    /\ fetcher.start < fetcher.totalCount
    /\ fetcher.ctx
    /\ fetcher' = QueryReturns(fetcher, fetcher.result, "ctxErr")
    /\ UNCHANGED <<limiter, now, mu, tb, fw, fdl, config, made, client, do, procs, h>>

\* the head of a batch that goes on, lines 57-62
AtBatch ==
    /\ client = "clinvar.Fetcher"
    /\ fetcher.pc = "batch"
    /\ fetcher.start < fetcher.totalCount
    /\ ~fetcher.ctx

\* fetchByQuery, lines 64-68 and 73-77: the search or the fetch of the batch
\* fails: continue
FetchBatchFails ==
    /\ AtBatch
    /\ fetcher' = [fetcher EXCEPT !.start = @ + batchSize]
    /\ UNCHANGED <<limiter, now, mu, tb, fw, fdl, config, made, client, do, procs, h>>

\* fetchByQuery, lines 69-71: the search finds no ids: break
FetchBatchEmpty ==
    /\ AtBatch
    /\ fetcher' = QueryReturns(fetcher, fetcher.result, "none")
    /\ UNCHANGED <<limiter, now, mu, tb, fw, fdl, config, made, client, do, procs, h>>

\* fetchByQuery, lines 73-96: the variants of the batch are collected
FetchBatch(cvSets) ==
    /\ AtBatch
    /\ LET acc == Collect(cvSets, [seen |-> fetcher.seen,
                                   result |-> fetcher.result,
                                   skipped |-> fetcher.skipped])
       IN  fetcher' = [fetcher EXCEPT !.seen = acc.seen, !.result = acc.result,
                                      !.skipped = acc.skipped,
                                      !.start = @ + batchSize]
    /\ UNCHANGED <<limiter, now, mu, tb, fw, fdl, config, made, client, do, procs, h>>

\* the caller's context is canceled while FetchSignificantSNPs runs
FetchCtxCancel ==
    /\ client = "clinvar.Fetcher"
    /\ fetcher.pc \in {"query", "batch"}
    /\ ~fetcher.ctx
    /\ fetcher' = [fetcher EXCEPT !.ctx = TRUE]
    /\ UNCHANGED <<limiter, now, mu, tb, fw, fdl, config, made, client, do, procs, h>>

InitFetcher ==
    /\ limiter = "Limiter"
    /\ now = 0
    /\ mu = {}
    /\ tb = NoTokenBucket
    /\ fw = NoFixedWindow
    /\ fdl = NoFixedDelayLimiter
    /\ config = DefaultConfig
    /\ made = NothingMade
    /\ client = "clinvar.Fetcher"
    /\ fetcher = NoFetch
    /\ do = [p \in Procs |-> NoDo]
    /\ procs = [p \in Procs |-> IdleProc]
    /\ h = InitHist

NextFetcher ==
    \/ \E c \in BOOLEAN : FetchSignificantSNPsCall(c)
    \/ FetchByQuerySearchErr
    \/ \E count \in 0..MaxCount : FetchByQueryCall(count)
    \/ FetchLoopEnd
    \/ FetchBatchCanceled
    \/ FetchBatchFails \/ FetchBatchEmpty
    \/ \E cvSets \in Batches : FetchBatch(cvSets)
    \/ FetchCtxCancel

SpecFetcher == InitFetcher /\ [][NextFetcher]_vars

----------------------------------------------------------------------------
\* Properties of the Fetcher (checked under SpecFetcher)

\* no element occurs twice
NoDup(seq) == \A i, j \in 1..Len(seq) : i # j => seq[i] # seq[j]

\* the elements
Range(seq) == {seq[i] : i \in 1..Len(seq)}

\* C38: what the Fetcher has collected and what it returns holds each rsID
\* at most once, over all the batches of a fetchByQuery and all the queries
\* of a FetchSignificantSNPs (a variant whose rsID was returned before is
\* skipped); and a fetchByQuery that comes to the head of a batch with its
\* context canceled returns the context's error there.
C38_FetcherDeduplicates ==
    [][fetcher'.pc # "idle" =>
        /\ NoDup(fetcher'.allData \o fetcher'.result)
        /\ Range(fetcher'.allData \o fetcher'.result) \subseteq fetcher'.seen
        /\ NoDup(fetcher'.byQuery.data)
        /\ NoDup(fetcher'.ret.data)
        /\ (/\ fetcher.pc = "batch"
            /\ fetcher.start < fetcher.totalCount
            /\ fetcher.ctx)
           => (/\ fetcher'.pc = "done"
               /\ fetcher'.byQuery = [data |-> fetcher.result, err |-> "ctxErr"]
               /\ fetcher'.ret.err = "ctxErr")]_vars

\* a later query met an rsID that an earlier query had returned, skipped it,
\* collected another, and was canceled at the head of its next batch
C38_Witness ==
    /\ client = "clinvar.Fetcher"
    /\ fetcher.pc = "done"
    /\ fetcher.q >= 2
    /\ fetcher.skipped
    /\ Cardinality(fetcher.seen) >= 2
    /\ fetcher.byQuery.err = "ctxErr"
    /\ Len(fetcher.byQuery.data) >= 1

====
